---- MODULE Spec2Model ----
(***************************************************************************)
(* Control-surface synchronisation protocol of mxvoice-electron.           *)
(* Host side: src/src/main/modules/stream-deck.js (WebSocket server,       *)
(* connection registry, action dispatch, state store, broadcaster).        *)
(*                                                                         *)
(* Numbers are scaled so that the model stays in the integers: a volume v  *)
(* of the program is the integer 100*v (VolumeOne = 1.0), positions and    *)
(* durations are whole seconds.                                            *)
(***************************************************************************)
EXTENDS Integers, Sequences, FiniteSets, TLC

(* ----------------------------- bounds ---------------------------------- *)
\* number of socket identities the server can be handed by the ws library
NumConns == 2
\* number of suspended async functions (sendStateUpdate, sendHotkeyStateUpdate)
MaxTasks == 1
\* socket objects of the plugin whose events can still fire
NumSockets == 3
\* hotkey tabs of the renderer
NumTabs == 3
\* calls of switchToHotkeyTab whose callbacks have not all run
MaxSwitches == 1
\* shown.bs.tab events not yet delivered
MaxShown == 1
\* timers that clear the flag of a programmatic switch
MaxFlagTimers == 2

Conns == 1..NumConns

(* ------------------------- JavaScript values --------------------------- *)
\* A JavaScript value: its type tag and an integer content.  Absent marks a
\* property that the object literal does not have at all.
Absent == [t |-> "absent", v |-> 0]
Undef == [t |-> "undefined", v |-> 0]
Null == [t |-> "null", v |-> 0]
Num(n) == [t |-> "number", v |-> n]
Bool(b) == [t |-> "boolean", v |-> IF b THEN 1 ELSE 0]
Song(id) == [t |-> "object", v |-> id]
AudioStateStr(k) == [t |-> "string", v |-> k]

VolumeOne == 100
PLAYING == AudioStateStr(1)
PAUSED == AudioStateStr(2)
STOPPED == AudioStateStr(3)

\* reading a property: an absent property reads as undefined
Get(x) == IF x.t = "absent" THEN Undef ELSE x

\* ToBoolean
Truthy(x) ==
  CASE x.t \in {"absent", "undefined", "null"} -> FALSE
    [] x.t = "boolean" -> x.v = 1
    [] x.t = "number" -> x.v # 0
    [] OTHER -> TRUE

\* ToNumber is NaN for undefined and for plain objects
IsNaN(x) == x.t \in {"absent", "undefined", "object", "string"}
ToNumber(x) == IF x.t \in {"number", "boolean"} THEN x.v ELSE 0

\* x >= n and x <= n of JavaScript: false as soon as one side is NaN
JsGe(x, n) == ~IsNaN(x) /\ ToNumber(x) >= n
JsLe(x, n) == ~IsNaN(x) /\ ToNumber(x) <= n

\* a || b
JsOr(a, b) == IF Truthy(a) THEN a ELSE b

\* song?.position and song?.duration of the song objects the renderer emits
SongPosition(s) == IF s.t = "object" THEN Num(IF s.v = 2 THEN 5 ELSE 0) ELSE Undef
SongDuration(s) == IF s.t = "object" THEN Num(IF s.v = 2 THEN 9 ELSE 0) ELSE Undef

(* ----------------------------- payloads -------------------------------- *)
\* One record shape for every payload on the wire and for every update
\* object: the properties a given message does not have are Absent.
NoPayload ==
  [ audioState |-> Absent, isPlaying |-> Absent, currentSong |-> Absent,
    volume |-> Absent, position |-> Absent, duration |-> Absent,
    loopEnabled |-> Absent, muteEnabled |-> Absent, enabled |-> Absent,
    connected |-> Absent, connectionCount |-> Absent, lastActivity |-> Absent,
    songId |-> Absent, filePath |-> Absent, tabNumber |-> Absent,
    changedTab |-> Absent ]

\* Messages (both directions, and the objects handed to updateState):
\*   json    "malformed" | "null" | "object"   what JSON.parse makes of it
\*   action  "" when the message has no action property
\*   type    "" when the message has no type property
\*   success "none" when the payload has no success property
\*   code    "" when there is no error code
\*   about   the action an error message names ("" when none)
\*   command "" when the message has no command property
\*   timestamp  of a keep-alive message, Absent when it has none
NoMessage ==
  [ json |-> "object", action |-> "", type |-> "", success |-> "none",
    code |-> "", about |-> "", command |-> "", timestamp |-> Absent,
    payload |-> NoPayload ]

(* ------------------------------ state ---------------------------------- *)
VARIABLES
  wsServer,           \* "undefined" at load, "server" while the WebSocketServer exists, "null" once stopped
  activeConnections,  \* the Set of sockets, in insertion order
  readyState,         \* per socket: OPEN, CLOSING, CLOSED_PENDING, CLOSED
  streamDeckState,    \* the shared state object
  mainWindow,         \* TRUE when mainWindow.webContents can be used
  tasks,              \* suspended async functions
  sent,               \* per socket: messages handed to ws.send in the last step
  ipc,                \* commands sent to the renderer in the last step
  last,               \* the operation of the last step and its input
  \* the control-surface client (the Stream Deck plugin)
  websocket,             \* the socket the plugin refers to, NoSocket for null
  sockets,               \* per socket object: where it stands
  isConnected,
  reconnectAttempts,
  currentReconnectDelay,
  reconnectTimer,
  slowReconnectTimer,
  pingTimer,
  lastPlayPausePress,    \* 0, or 1 for a recorded time
  sinceAttempt,          \* time passed since the last connection attempt: 0 or Latency
  audioState,            \* the plugin's picture of the player, which its buttons show
  commands,              \* messages the plugin handed to websocket.send in the last step
  event,                 \* the plugin's last step and what it did
  \* the hotkey tabs of the renderer (HotkeysModule)
  activeTab,             \* number of the tab whose link is active
  lastNotification,      \* this._lastNotification
  programmaticSwitch,    \* this._programmaticSwitch
  switches,              \* calls of switchToHotkeyTab with callbacks to come
  flagTimers,            \* time left of the timers that clear the flag
  shownEvents,           \* shown.bs.tab events to be delivered
  watched,               \* the key whose notifications are timed
  lastEmit,              \* age of the last tab-switched notification of that key
  tabEvent,              \* the last step of the tab code and what it did
  \* the listening endpoint and the settings the host keeps
  serverPort,            \* the module's serverPort
  store,                 \* the settings store, per key: the value, Absent when unset
  endpoint,              \* "none", "listening", "failing" (its 'error' event is to come), "failed"
  busyPorts,             \* ports another process listens on
  autoStartTimer         \* TRUE while the timer of the auto-start is set

hostVars == << wsServer, activeConnections, readyState, streamDeckState,
               mainWindow, tasks, sent, ipc, last >>

pluginVars == << websocket, sockets, isConnected, reconnectAttempts,
                 currentReconnectDelay, reconnectTimer, slowReconnectTimer,
                 pingTimer, lastPlayPausePress, sinceAttempt, audioState,
                 commands, event >>

tabVars == << activeTab, lastNotification, programmaticSwitch, switches,
              flagTimers, shownEvents, watched, lastEmit, tabEvent >>

settingVars == << serverPort, store, endpoint, busyPorts, autoStartTimer >>

nonHostVars == << pluginVars, tabVars, settingVars >>
nonPluginVars == << hostVars, tabVars, settingVars >>
nonTabVars == << hostVars, pluginVars, settingVars >>

vars == << hostVars, pluginVars, tabVars, settingVars >>

DefaultState ==
  [ connected |-> Bool(FALSE), connectionCount |-> Num(0), lastActivity |-> Null,
    currentSong |-> Null, isPlaying |-> Bool(FALSE), volume |-> Num(VolumeOne),
    position |-> Num(0), duration |-> Num(0), loopEnabled |-> Bool(FALSE),
    muteEnabled |-> Bool(FALSE), audioState |-> Absent ]

NoneSent == [c \in Conns |-> << >>]

\* the last step: the operation, its socket (0 when it has none), its input,
\* whether the action handler raised, the sockets whose ws.send raised, and
\* the sockets ws.close(1000, ...) was called on
Op(name, ws, msg) ==
  [op |-> name, ws |-> ws, msg |-> msg, threw |-> FALSE, fails |-> {},
   closed |-> {}, result |-> Undef]

\* Date.now(): the model keeps one abstract instant
Now == Num(1)

(* ------------------------ registry as a JS Set ------------------------- *)
Range(s) == {s[i] : i \in 1..Len(s)}

\* Set.prototype.add keeps the insertion order and ignores a second add
SetAdd(s, c) == IF c \in Range(s) THEN s ELSE Append(s, c)

\* Set.prototype.delete
SetDelete(s, c) == SelectSeq(s, LAMBDA d : d # c)

(* ------------------------------ sending -------------------------------- *)
\* sendMessage(ws, message): ws.send only when the socket is OPEN; an
\* exception of ws.send is caught and logged.  rs is the readyState of the
\* sockets at the call, fails the set of sockets whose ws.send throws.
SendOn(rs, out, ws, message, fails) ==
  IF rs[ws] = "OPEN" /\ ws \notin fails
    THEN [out EXCEPT ![ws] = Append(@, message)]
    ELSE out

SendMessage(out, ws, message, fails) == SendOn(readyState, out, ws, message, fails)

\* sendActionResponse(ws, action, success, message, errorCode, payload)
ActionResponse(action, success, errorCode, payload) ==
  [ NoMessage EXCEPT
      !.action = IF action # "" THEN action \o "Response" ELSE "errorResponse",
      !.success = IF success THEN "true" ELSE "false",
      !.code = IF ~success THEN (IF errorCode # "" THEN errorCode ELSE "UNKNOWN_ERROR") ELSE "",
      !.about = IF ~success THEN action ELSE "",
      !.payload = payload ]

\* mutant: the response goes to every registered socket
SendActionResponse_ToAll(out, ws, action, success, errorCode, payload) ==
  LET m == ActionResponse(action, success, errorCode, payload) IN
  [c \in Conns |->
     IF readyState[c] = "OPEN" /\ (c = ws \/ c \in Range(activeConnections))
       THEN Append(out[c], m) ELSE out[c]]

SendActionResponse(out, ws, action, success, errorCode, payload) ==
  SendMessage(out, ws, ActionResponse(action, success, errorCode, payload), {})

\* broadcastMessage(message): forEach over the Set in insertion order; no
\* socket has authenticated === false, so every socket is handed to sendMessage
\* mutant: the loop ends at the first socket that is not OPEN or whose send raises
RECURSIVE BroadcastFrom_EndsAtFailure(_, _, _, _, _)
BroadcastFrom_EndsAtFailure(out, conns, i, message, fails) ==
  IF i > Len(conns) \/ readyState[conns[i]] # "OPEN" \/ conns[i] \in fails THEN out
  ELSE BroadcastFrom_EndsAtFailure(SendMessage(out, conns[i], message, fails),
                                   conns, i + 1, message, fails)

RECURSIVE BroadcastFrom(_, _, _, _, _)
BroadcastFrom(out, conns, i, message, fails) ==
  IF i > Len(conns) THEN out
  ELSE BroadcastFrom(SendMessage(out, conns[i], message, fails), conns, i + 1, message, fails)

\* mutant: the first socket of the registry is passed over
BroadcastMessage_SkipsFirst(out, message, fails) ==
  BroadcastFrom(out, activeConnections, 2, message, fails)

\* broadcastMessage(message): sendMessage for every socket of the registry,
\* in its order, within the call
BroadcastMessage(out, message, fails) ==
  BroadcastFrom(out, activeConnections, 1, message, fails)

(* --------------------------- server lifecycle -------------------------- *)
\* the JS value of the module's wsServer variable
WsServerValue(w) ==
  IF w = "server" THEN [t |-> "object", v |-> 0]
  ELSE IF w = "null" THEN Null ELSE Undef

\* the port the module is loaded with, and the default of the stored setting
DefaultPort == 8888

\* another port, and a number no endpoint can listen on
OtherPort == DefaultPort + 1
BadPort == -1

Ports == {DefaultPort, OtherPort}

\* the keys of the settings store the code names
StoreKeys == {"streamdeck_port", "streamdeck_enabled", "streamDeck.port"}

\* store.get(key, defaultValue)
StoreGet(st, key, defaultValue) ==
  IF st[key] = Absent THEN defaultValue ELSE st[key]

\* new WebSocketServer({port, host}): the constructor throws for a number that
\* is no port; a port in use is reported later, by the server's 'error' event
Listen(port, busy) ==
  IF port.t # "number" \/ port.v < 0 THEN "throws"
  ELSE IF port.v \in busy THEN "failing"
  ELSE "listening"

\* startServer() where wsServer is w and the endpoint e: what it leaves and returns
StartServerFrom(w, e, port, busy) ==
  IF Truthy(WsServerValue(w))
    THEN [wsServer |-> w, endpoint |-> e, result |-> Bool(FALSE)]
  ELSE IF Listen(port, busy) = "throws"
    THEN [wsServer |-> w, endpoint |-> e, result |-> Bool(FALSE)]
  ELSE [wsServer |-> "server", endpoint |-> Listen(port, busy), result |-> Bool(TRUE)]

\* startServer(): nothing when already running
StartServer ==
  /\ ~Truthy(WsServerValue(wsServer))
  /\ LET r == StartServerFrom(wsServer, endpoint, serverPort, busyPorts)
     IN  /\ wsServer' = r.wsServer
         /\ endpoint' = r.endpoint
         /\ last' = [Op("startServer", 0, NoMessage) EXCEPT !.result = r.result]
  /\ sent' = NoneSent
  /\ ipc' = << >>
  /\ UNCHANGED << activeConnections, readyState, streamDeckState,
                  mainWindow, tasks >>
  /\ UNCHANGED << pluginVars, tabVars, serverPort, store, busyPorts, autoStartTimer >>

\* handleServerError(error): the 'error' event of the server is logged
HandleServerError ==
  /\ endpoint = "failing"
  /\ endpoint' = "failed"
  /\ sent' = NoneSent
  /\ ipc' = << >>
  /\ last' = Op("handleServerError", 0, NoMessage)
  /\ UNCHANGED << wsServer, activeConnections, readyState, streamDeckState,
                  mainWindow, tasks >>
  /\ UNCHANGED << pluginVars, tabVars, serverPort, store, busyPorts, autoStartTimer >>

\* getServerStatus()
GetServerStatus ==
  [ running |-> Truthy(WsServerValue(wsServer)),
    port |-> serverPort,
    connections |-> streamDeckState.connectionCount,
    lastActivity |-> streamDeckState.lastActivity ]

\* the object stopServer() assigns to streamDeckState
ResetState ==
  [ connected |-> Bool(FALSE), connectionCount |-> Num(0), lastActivity |-> Null,
    currentSong |-> Null, isPlaying |-> Bool(FALSE), volume |-> Num(VolumeOne),
    position |-> Num(0), duration |-> Num(0), loopEnabled |-> Bool(FALSE),
    muteEnabled |-> Bool(FALSE), audioState |-> Absent ]

ShutdownClosed_SkipsOpen(conns, rs) ==
  {c \in Range(conns) : rs[c] # "OPEN"}

\* the sockets stopServer() calls ws.close(1000, 'Server shutting down') on
ShutdownClosed(conns, rs) ==
  {c \in Range(conns) : rs[c] = "OPEN"}

\* stopServer(): close(1000) on every OPEN socket, clear the Set, reset the state
StopServer ==
  /\ Truthy(WsServerValue(wsServer))
  /\ readyState' = [c \in Conns |->
        IF c \in ShutdownClosed(activeConnections, readyState) /\ readyState[c] = "OPEN"
          THEN "CLOSING" ELSE readyState[c]]
  /\ activeConnections' = << >>
  /\ wsServer' = "null"
  /\ streamDeckState' = ResetState
  /\ sent' = NoneSent
  /\ ipc' = << >>
  /\ endpoint' = "none"
  /\ last' = [Op("stopServer", 0, NoMessage) EXCEPT
                !.closed = ShutdownClosed(activeConnections, readyState),
                !.result = Bool(TRUE)]
  /\ UNCHANGED << mainWindow, tasks >>
  /\ UNCHANGED << pluginVars, tabVars, serverPort, store, busyPorts, autoStartTimer >>

\* updateConfig(config): a new port is kept and stored, and a running server
\* is stopped and started again
UpdateConfig(port) ==
  /\ IF Truthy(port) /\ port # serverPort
       THEN /\ serverPort' = port
            /\ store' = [store EXCEPT !["streamDeck.port"] = port]
            /\ IF Truthy(WsServerValue(wsServer))
                 THEN LET r == StartServerFrom("null", "none", port, busyPorts)
                      IN  /\ readyState' = [c \in Conns |->
                                IF c \in ShutdownClosed(activeConnections, readyState)
                                  THEN "CLOSING" ELSE readyState[c]]
                          /\ activeConnections' = << >>
                          /\ streamDeckState' = ResetState
                          /\ wsServer' = r.wsServer
                          /\ endpoint' = r.endpoint
                          /\ last' = [Op("updateConfig", 0, NoMessage) EXCEPT
                                 !.closed = ShutdownClosed(activeConnections, readyState),
                                 !.result = r.result]
                 ELSE /\ last' = Op("updateConfig", 0, NoMessage)
                      /\ UNCHANGED << wsServer, endpoint, activeConnections,
                                      readyState, streamDeckState >>
       ELSE /\ last' = Op("updateConfig", 0, NoMessage)
            /\ UNCHANGED << serverPort, store, wsServer, endpoint,
                            activeConnections, readyState, streamDeckState >>
  /\ sent' = NoneSent
  /\ ipc' = << >>
  /\ UNCHANGED << mainWindow, tasks >>
  /\ UNCHANGED << pluginVars, tabVars, busyPorts, autoStartTimer >>

\* initializeStreamDeck(dependencies), once after the module is loaded: the
\* port is read from the store and the auto-start is timed
InitializeStreamDeck ==
  /\ last.op = "init"
  /\ mainWindow' = TRUE
  /\ serverPort' = StoreGet(store, "streamdeck_port", Num(DefaultPort))
  /\ autoStartTimer' = Truthy(StoreGet(store, "streamdeck_enabled", Bool(FALSE)))
  /\ sent' = NoneSent
  /\ ipc' = << >>
  /\ last' = Op("initializeStreamDeck", 0, NoMessage)
  /\ UNCHANGED << wsServer, activeConnections, readyState, streamDeckState, tasks >>
  /\ UNCHANGED << pluginVars, tabVars, store, endpoint, busyPorts >>

\* the timer of the auto-start fires: startServer()
AutoStartFires ==
  /\ autoStartTimer
  /\ autoStartTimer' = FALSE
  /\ LET r == StartServerFrom(wsServer, endpoint, serverPort, busyPorts)
     IN  /\ wsServer' = r.wsServer
         /\ endpoint' = r.endpoint
         /\ last' = [Op("autoStart", 0, NoMessage) EXCEPT !.result = r.result]
  /\ sent' = NoneSent
  /\ ipc' = << >>
  /\ UNCHANGED << activeConnections, readyState, streamDeckState,
                  mainWindow, tasks >>
  /\ UNCHANGED << pluginVars, tabVars, serverPort, store, busyPorts >>

(* ------------------------- sendStateUpdate ----------------------------- *)
\* A suspended async function:
\*   kind  "sendStateUpdate" | "sendHotkeyStateUpdate"
\*   ws    the socket of sendStateUpdate (0 for the hotkey update)
\*   pc    the await it is suspended at
\*   loop, mute   the locals currentLoopState and currentMuteState
\*   tab, change  the arguments of sendHotkeyStateUpdate
Task(kind, ws, pc, loop, mute, tab, change) ==
  [ kind |-> kind, ws |-> ws, pc |-> pc, loop |-> loop, mute |-> mute,
    tab |-> tab, change |-> change ]

RemoveAt(s, i) == SubSeq(s, 1, i - 1) \o SubSeq(s, i + 1, Len(s))

\* the connectionStateUpdate envelope: {...streamDeckState, connected: true,
\* loopEnabled: currentLoopState, muteEnabled: currentMuteState, ...}
StateMessage(st, loop, mute) ==
  [ NoMessage EXCEPT
      !.action = "connectionStateUpdate",
      !.payload = [ NoPayload EXCEPT
          !.audioState = st.audioState, !.isPlaying = st.isPlaying,
          !.currentSong = st.currentSong, !.volume = st.volume,
          !.position = st.position, !.duration = st.duration,
          !.connectionCount = st.connectionCount, !.lastActivity = st.lastActivity,
          !.connected = Bool(TRUE), !.loopEnabled = loop, !.muteEnabled = mute ] ]

\* ipcMain.invoke(...) either throws at the call (caught by the inner try,
\* nothing is awaited) or returns a promise that settles in a later step
InvokeModes == {"throws", "pending"}

\* what the awaited promise settles to: rejected, a result without success,
\* or {success: true, loopEnabled | muteEnabled: b}
InvokeResults == {"reject", "nosuccess", "true", "false"}

\* The part of sendStateUpdate(ws) that runs inside its caller: up to the
\* first await, or to the end when nothing is awaited.  st is the state
\* object as the caller left it.
StateUpdateSuspends(mode) == mainWindow /\ mode = "pending"

StateUpdateTasks(ws, st, mode) ==
  IF StateUpdateSuspends(mode)
    THEN Append(tasks, Task("sendStateUpdate", ws, "loop", st.loopEnabled,
                            st.muteEnabled, Absent, ""))
    ELSE tasks

\* mutant: the state is sent to every OPEN socket
StateUpdateSent_ToAll(rs, out, ws, st, mode) ==
  IF StateUpdateSuspends(mode)
    THEN out
    ELSE [c \in Conns |->
            IF rs[c] = "OPEN"
              THEN Append(out[c], StateMessage(st, st.loopEnabled, st.muteEnabled))
              ELSE out[c]]

StateUpdateSent(rs, out, ws, st, mode) ==
  IF StateUpdateSuspends(mode)
    THEN out
    ELSE SendOn(rs, out, ws, StateMessage(st, st.loopEnabled, st.muteEnabled), {})

\* sendStateUpdate resumed after `await ipcMain.invoke('get-loop-state')`
ResumeLoopState(i, r) ==
  /\ i \in 1..Len(tasks)
  /\ tasks[i].kind = "sendStateUpdate" /\ tasks[i].pc = "loop"
  /\ LET t == tasks[i]
         b == Bool(r = "true")
     IN  CASE r = "reject" ->
                /\ tasks' = RemoveAt(tasks, i)
                /\ sent' = SendMessage(NoneSent, t.ws,
                              StateMessage(streamDeckState, t.loop, t.mute), {})
                /\ UNCHANGED streamDeckState
           [] r = "nosuccess" ->
                /\ tasks' = [tasks EXCEPT ![i].pc = "mute"]
                /\ sent' = NoneSent
                /\ UNCHANGED streamDeckState
           [] OTHER ->
                /\ tasks' = [tasks EXCEPT ![i].pc = "mute", ![i].loop = b]
                /\ streamDeckState' = [streamDeckState EXCEPT !.loopEnabled = b]
                /\ sent' = NoneSent
  /\ ipc' = << >>
  /\ last' = Op("resumeLoopState", tasks[i].ws, NoMessage)
  /\ UNCHANGED << wsServer, activeConnections, readyState, mainWindow >>
  /\ UNCHANGED nonHostVars

\* sendStateUpdate resumed after `await ipcMain.invoke('get-mute-state')`:
\* it builds the envelope from the state object as it is now and sends it
ResumeMuteState(i, r) ==
  /\ i \in 1..Len(tasks)
  /\ tasks[i].kind = "sendStateUpdate" /\ tasks[i].pc = "mute"
  /\ LET t == tasks[i]
         b == Bool(r = "true")
         st == IF r \in {"true", "false"}
                 THEN [streamDeckState EXCEPT !.muteEnabled = b]
                 ELSE streamDeckState
         mute == IF r \in {"true", "false"} THEN b ELSE t.mute
     IN  /\ streamDeckState' = st
         /\ sent' = SendMessage(NoneSent, t.ws, StateMessage(st, t.loop, mute), {})
  /\ tasks' = RemoveAt(tasks, i)
  /\ ipc' = << >>
  /\ last' = Op("resumeMuteState", tasks[i].ws, NoMessage)
  /\ UNCHANGED << wsServer, activeConnections, readyState, mainWindow >>
  /\ UNCHANGED nonHostVars

(* --------------------------- connections ------------------------------- *)
\* a socket identity is handed out again once nothing refers to it
Unreferenced(c) == \A i \in 1..Len(tasks) : tasks[i].ws # c

\* handleConnection(ws, request)
HandleConnection(c, mode) ==
  /\ wsServer = "server"
  /\ endpoint = "listening"
  /\ readyState[c] = "CLOSED"
  /\ Unreferenced(c)
  /\ StateUpdateSuspends(mode) => Len(tasks) < MaxTasks
  /\ readyState' = [readyState EXCEPT ![c] = "OPEN"]
  /\ activeConnections' = SetAdd(activeConnections, c)
  /\ LET st == [streamDeckState EXCEPT
                  !.connectionCount = Num(Len(activeConnections')),
                  !.lastActivity = Now]
     IN  /\ tasks' = StateUpdateTasks(c, st, mode)
         /\ sent' = StateUpdateSent(readyState', NoneSent, c, st, mode)
         /\ streamDeckState' = [st EXCEPT !.connected = Bool(TRUE)]
  /\ ipc' = << >>
  /\ last' = Op("handleConnection", c, NoMessage)
  /\ UNCHANGED << wsServer, mainWindow >>
  /\ UNCHANGED nonHostVars

\* mutant: connected is cleared whatever is left in the registry
DisconnectedState_AlwaysFalse(st, conns) ==
  [st EXCEPT !.connectionCount = Num(Len(conns)), !.connected = Bool(FALSE)]

\* the state fields handleDisconnection and handleConnectionError write
DisconnectedState(st, conns) ==
  [st EXCEPT !.connectionCount = Num(Len(conns)),
             !.connected = Bool(Len(conns) > 0)]

\* the peer closes or the transport drops: the socket leaves OPEN, its
\* 'close' event is emitted in a later step
PeerClose(c) ==
  /\ readyState[c] = "OPEN"
  /\ readyState' = [readyState EXCEPT ![c] = "CLOSED_PENDING"]
  /\ sent' = NoneSent
  /\ ipc' = << >>
  /\ last' = Op("peerClose", c, NoMessage)
  /\ UNCHANGED << wsServer, activeConnections, streamDeckState,
                  mainWindow, tasks >>
  /\ UNCHANGED nonHostVars

\* 'close' event: handleDisconnection(ws)
HandleDisconnection(c) ==
  /\ readyState[c] \in {"CLOSING", "CLOSED_PENDING"}
  /\ readyState' = [readyState EXCEPT ![c] = "CLOSED"]
  /\ activeConnections' = SetDelete(activeConnections, c)
  /\ streamDeckState' = DisconnectedState(streamDeckState, activeConnections')
  /\ sent' = NoneSent
  /\ ipc' = << >>
  /\ last' = Op("handleDisconnection", c, NoMessage)
  /\ UNCHANGED << wsServer, mainWindow, tasks >>
  /\ UNCHANGED nonHostVars

\* 'error' event: handleConnectionError(ws, error); ws emits 'close' after it
HandleConnectionError(c) ==
  /\ readyState[c] \in {"OPEN", "CLOSING"}
  /\ readyState' = [readyState EXCEPT ![c] = "CLOSED_PENDING"]
  /\ activeConnections' = SetDelete(activeConnections, c)
  /\ streamDeckState' = DisconnectedState(streamDeckState, activeConnections')
  /\ sent' = NoneSent
  /\ ipc' = << >>
  /\ last' = Op("handleConnectionError", c, NoMessage)
  /\ UNCHANGED << wsServer, mainWindow, tasks >>
  /\ UNCHANGED nonHostVars

\* the BrowserWindow is destroyed, or the module is initialised with a new one
MainWindowChange ==
  /\ mainWindow' = ~mainWindow
  /\ sent' = NoneSent
  /\ ipc' = << >>
  /\ last' = Op("mainWindowChange", 0, NoMessage)
  /\ UNCHANGED << wsServer, activeConnections, readyState,
                  streamDeckState, tasks >>
  /\ UNCHANGED nonHostVars

(* --------------------------- action handlers --------------------------- *)
\* the keys of the actionHandlers Map after setupActionHandlers()
RegisteredActions ==
  { "pauseTrack", "playTrack", "stopTrack", "setVolume", "seekToPosition",
    "toggleLoop", "toggleMute", "getState", "getHotkeyTabs", "getHotkeyTabContent" }

\* every handler is declared `async (ws, payload) => {...}`: an exception in
\* its body rejects the promise it returns and is not thrown to the caller
HandlerIsAsync(action) == action \in RegisteredActions

\* mainWindow.webContents.send(channel, arg)
Command(channel, arg) == [channel |-> channel, arg |-> arg]

\* What a handler has done when it returns to handleActionCommand:
\*   st the state object, cmds the commands sent to the renderer, out the
\*   messages sent, tk the suspended functions, threw whether its body raised
Result(st, cmds, out, tk, threw) ==
  [st |-> st, cmds |-> cmds, out |-> out, tk |-> tk, threw |-> threw]

\* the body raises at mainWindow.webContents before anything else happened
Raised(st) == Result(st, << >>, NoneSent, tasks, TRUE)

Respond(ws, action, payload) ==
  SendActionResponse(NoneSent, ws, action, TRUE, "", payload)

Reject(ws, action, errorCode) ==
  SendActionResponse(NoneSent, ws, action, FALSE, errorCode, NoPayload)

PauseTrack(ws, payload, st) ==
  IF ~mainWindow THEN Raised(st)
  ELSE Result(st, << Command("streamdeck_pause", Undef) >>,
              Respond(ws, "pauseTrack", NoPayload), tasks, FALSE)

PlayTrack(ws, payload, st) ==
  IF ~mainWindow THEN Raised(st)
  ELSE IF Truthy(payload.filePath)
    THEN Result(st, << Command("streamdeck_play_file", payload.filePath) >>,
                Respond(ws, "playTrack", [NoPayload EXCEPT !.filePath = payload.filePath]),
                tasks, FALSE)
  ELSE IF Truthy(payload.songId)
    THEN Result(st, << Command("streamdeck_play_song", payload.songId) >>,
                Respond(ws, "playTrack", [NoPayload EXCEPT !.songId = payload.songId]),
                tasks, FALSE)
  ELSE Result(st, << Command("streamdeck_resume", Undef) >>,
              Respond(ws, "playTrack", NoPayload), tasks, FALSE)

StopTrack(ws, payload, st) ==
  IF ~mainWindow THEN Raised(st)
  ELSE Result(st, << Command("streamdeck_stop", Undef) >>,
              Respond(ws, "stopTrack", NoPayload), tasks, FALSE)

\* mutant: the lower bound is not checked
VolumeAccepted_NoLowerBound(volume) == JsLe(volume, VolumeOne)

\* volume >= 0 && volume <= 1
VolumeAccepted(volume) == JsGe(volume, 0) /\ JsLe(volume, VolumeOne)

SetVolume(ws, payload, st) ==
  LET volume == Get(payload.volume) IN
  IF VolumeAccepted(volume)
    THEN IF ~mainWindow THEN Raised(st)
         ELSE Result([st EXCEPT !.volume = volume],
                     << Command("streamdeck_set_volume", volume) >>,
                     Respond(ws, "setVolume", [NoPayload EXCEPT !.volume = volume]),
                     tasks, FALSE)
    ELSE Result(st, << >>, Reject(ws, "setVolume", "INVALID_VOLUME"), tasks, FALSE)

\* mutant: the bound is off by one
PositionAccepted_OffByOne(position) == JsGe(position, -1)

\* position >= 0
PositionAccepted(position) == JsGe(position, 0)

SeekToPosition(ws, payload, st) ==
  LET position == Get(payload.position) IN
  IF PositionAccepted(position)
    THEN IF ~mainWindow THEN Raised(st)
         ELSE Result([st EXCEPT !.position = position],
                     << Command("streamdeck_seek", position) >>,
                     Respond(ws, "seekToPosition", [NoPayload EXCEPT !.position = position]),
                     tasks, FALSE)
    ELSE Result(st, << >>, Reject(ws, "seekToPosition", "INVALID_POSITION"), tasks, FALSE)

ToggleLoop(ws, payload, st) ==
  LET enabled == Get(payload.enabled)
      st2 == IF enabled # Undef THEN [st EXCEPT !.loopEnabled = enabled] ELSE st
  IN  IF ~mainWindow THEN Raised(st)
      ELSE Result(st2, << Command("streamdeck_toggle_loop", enabled) >>,
                  Respond(ws, "toggleLoop", [NoPayload EXCEPT !.loopEnabled = st2.loopEnabled]),
                  tasks, FALSE)

ToggleMute(ws, payload, st) ==
  LET enabled == Get(payload.enabled)
      st2 == IF enabled # Undef THEN [st EXCEPT !.muteEnabled = enabled] ELSE st
  IN  IF ~mainWindow THEN Raised(st)
      ELSE Result(st2, << Command("streamdeck_toggle_mute", enabled) >>,
                  Respond(ws, "toggleMute", [NoPayload EXCEPT !.muteEnabled = st2.muteEnabled]),
                  tasks, FALSE)

GetState(ws, payload, st, mode) ==
  Result(st, << >>, StateUpdateSent(readyState, NoneSent, ws, st, mode),
         StateUpdateTasks(ws, st, mode), FALSE)

\* getHotkeyTabs: mainWindow.webContents.executeJavaScript is inside the
\* handler's own try; when it can be called the handler is suspended at it
GetHotkeyTabs(ws, payload, st) ==
  IF ~mainWindow
    THEN Result(st, << >>, Reject(ws, "getHotkeyTabs", "HOTKEY_FETCH_ERROR"), tasks, FALSE)
    ELSE Result(st, << >>, NoneSent,
                Append(tasks, Task("getHotkeyTabs", ws, "exec", Absent, Absent, Absent, "")),
                FALSE)

\* !tabNumber || tabNumber < 1 || tabNumber > 5
TabNumberRejected(tabNumber) ==
  \/ ~Truthy(tabNumber)
  \/ (~IsNaN(tabNumber) /\ ToNumber(tabNumber) < 1)
  \/ (~IsNaN(tabNumber) /\ ToNumber(tabNumber) > 5)

GetHotkeyTabContent(ws, payload, st) ==
  LET tabNumber == Get(payload.tabNumber) IN
  IF TabNumberRejected(tabNumber)
    THEN Result(st, << >>, Reject(ws, "getHotkeyTabContent", "INVALID_TAB_NUMBER"),
                tasks, FALSE)
  ELSE IF ~mainWindow
    THEN Result(st, << >>, Reject(ws, "getHotkeyTabContent", "HOTKEY_CONTENT_FETCH_ERROR"),
                tasks, FALSE)
    ELSE Result(st, << >>, NoneSent,
                Append(tasks, Task("getHotkeyTabContent", ws, "exec", Absent, Absent,
                                   tabNumber, "")),
                FALSE)

\* actionHandlers.get(action)(ws, payload)
Handler(action, ws, payload, st, mode) ==
  CASE action = "pauseTrack" -> PauseTrack(ws, payload, st)
    [] action = "playTrack" -> PlayTrack(ws, payload, st)
    [] action = "stopTrack" -> StopTrack(ws, payload, st)
    [] action = "setVolume" -> SetVolume(ws, payload, st)
    [] action = "seekToPosition" -> SeekToPosition(ws, payload, st)
    [] action = "toggleLoop" -> ToggleLoop(ws, payload, st)
    [] action = "toggleMute" -> ToggleMute(ws, payload, st)
    [] action = "getState" -> GetState(ws, payload, st, mode)
    [] action = "getHotkeyTabs" -> GetHotkeyTabs(ws, payload, st)
    [] action = "getHotkeyTabContent" -> GetHotkeyTabContent(ws, payload, st)

\* mutant: an action without handler is dropped without an answer
HandleActionCommand_DropsUnknown(ws, message, st, mode) ==
  IF message.action = ""
    THEN Result(st, << >>,
                SendActionResponse(NoneSent, ws, "", FALSE, "MISSING_ACTION", NoPayload),
                tasks, FALSE)
  ELSE IF message.action \notin RegisteredActions
    THEN Result(st, << >>, NoneSent, tasks, FALSE)
  ELSE LET r == Handler(message.action, ws, message.payload, st, mode) IN
       IF r.threw /\ ~HandlerIsAsync(message.action)
         THEN [r EXCEPT !.out = SendActionResponse(r.out, ws, message.action, FALSE,
                                                   "EXECUTION_ERROR", NoPayload)]
         ELSE r

\* handleActionCommand(ws, message): the catch runs only for an exception
\* thrown to the caller, which an async handler never does
HandleActionCommand(ws, message, st, mode) ==
  IF message.action = ""
    THEN Result(st, << >>,
                SendActionResponse(NoneSent, ws, "", FALSE, "MISSING_ACTION", NoPayload),
                tasks, FALSE)
  ELSE IF message.action \notin RegisteredActions
    THEN Result(st, << >>,
                SendActionResponse(NoneSent, ws, message.action, FALSE, "UNKNOWN_ACTION",
                                   NoPayload),
                tasks, FALSE)
  ELSE LET r == Handler(message.action, ws, message.payload, st, mode) IN
       IF r.threw /\ ~HandlerIsAsync(message.action)
         THEN [r EXCEPT !.out = SendActionResponse(r.out, ws, message.action, FALSE,
                                                   "EXECUTION_ERROR", NoPayload)]
         ELSE r

\* the legacy-format messages of handleMessage
ErrorMessage(code) == [NoMessage EXCEPT !.type = "error", !.code = code]
\* mutant: the pong carries no timestamp
Pong_NoTimestamp == [NoMessage EXCEPT !.type = "pong"]

\* { type: 'pong', timestamp: Date.now() }
Pong == [NoMessage EXCEPT !.type = "pong", !.timestamp = Now]

\* mutant: JSON.parse is outside the try, its exception is answered by nothing
HandleMessageResult_ParseOutsideTry(ws, message, mode) ==
  LET st == [streamDeckState EXCEPT !.lastActivity = Now] IN
  CASE message.json = "malformed" ->
         Result(streamDeckState, << >>, NoneSent, tasks, FALSE)
    [] message.json = "null" ->
         Result(st, << >>,
                SendMessage(NoneSent, ws, ErrorMessage("PARSE_ERROR"), {}), tasks, FALSE)
    [] OTHER ->
         IF message.action # ""
           THEN HandleActionCommand(ws, message, st, mode)
         ELSE IF message.type = "ping"
           THEN Result(st, << >>, SendMessage(NoneSent, ws, Pong, {}), tasks, FALSE)
           ELSE Result(st, << >>,
                       SendMessage(NoneSent, ws, ErrorMessage("UNSUPPORTED_FORMAT"), {}),
                       tasks, FALSE)

\* handleMessage(ws, data)
HandleMessageResult(ws, message, mode) ==
  LET st == [streamDeckState EXCEPT !.lastActivity = Now] IN
  CASE message.json = "malformed" ->
         Result(streamDeckState, << >>,
                SendMessage(NoneSent, ws, ErrorMessage("PARSE_ERROR"), {}), tasks, FALSE)
    [] message.json = "null" ->
         Result(st, << >>,
                SendMessage(NoneSent, ws, ErrorMessage("PARSE_ERROR"), {}), tasks, FALSE)
    [] OTHER ->
         IF message.action # ""
           THEN HandleActionCommand(ws, message, st, mode)
         ELSE IF message.type = "ping"
           THEN Result(st, << >>, SendMessage(NoneSent, ws, Pong, {}), tasks, FALSE)
           ELSE Result(st, << >>,
                       SendMessage(NoneSent, ws, ErrorMessage("UNSUPPORTED_FORMAT"), {}),
                       tasks, FALSE)

(* --------------------------- inbound messages -------------------------- *)
Envelope(action, payload) == [NoMessage EXCEPT !.action = action, !.payload = payload]

VolumeInputs == {Absent, Null, Num(-1), Num(0), Num(VolumeOne), Num(VolumeOne + 1)}
PositionInputs == {Absent, Num(-1), Num(0), Num(7)}
EnabledInputs == {Absent, Bool(TRUE), Bool(FALSE)}
TabNumberInputs == {Absent, Num(0), Num(3), Num(6)}

\* what a client can put on the wire
InboundMessages ==
  { [NoMessage EXCEPT !.json = "malformed"],
    [NoMessage EXCEPT !.json = "null"],
    NoMessage,
    [NoMessage EXCEPT !.type = "ping"],
    [NoMessage EXCEPT !.type = "command"],
    [NoMessage EXCEPT !.type = "ping", !.action = "bogus"],
    Envelope("bogus", NoPayload),
    Envelope("volumeUp", [NoPayload EXCEPT !.volume = Num(50)]),
    Envelope("pauseTrack", NoPayload),
    Envelope("stopTrack", NoPayload),
    Envelope("playTrack", NoPayload),
    Envelope("playTrack", [NoPayload EXCEPT !.songId = Num(7)]),
    Envelope("playTrack", [NoPayload EXCEPT !.filePath = AudioStateStr(9)]),
    Envelope("getState", NoPayload),
    Envelope("getHotkeyTabs", NoPayload) }
  \cup { Envelope("setVolume", [NoPayload EXCEPT !.volume = v]) : v \in VolumeInputs }
  \cup { Envelope("seekToPosition", [NoPayload EXCEPT !.position = x]) : x \in PositionInputs }
  \cup { Envelope("toggleLoop", [NoPayload EXCEPT !.enabled = e]) : e \in EnabledInputs }
  \cup { Envelope("toggleMute", [NoPayload EXCEPT !.enabled = e]) : e \in EnabledInputs }
  \cup { Envelope("getHotkeyTabContent", [NoPayload EXCEPT !.tabNumber = n]) :
           n \in TabNumberInputs }

\* 'message' event of a socket.  A socket the host has started to close still
\* delivers the messages that arrive before the closing handshake ends.
HandleMessage(c, m, mode) ==
  /\ readyState[c] \in {"OPEN", "CLOSING"}
  /\ mode = "throws" \/ m.action = "getState"
  /\ LET r == HandleMessageResult(c, m, mode) IN
       /\ Len(r.tk) <= MaxTasks
       /\ streamDeckState' = r.st
       /\ ipc' = r.cmds
       /\ sent' = r.out
       /\ tasks' = r.tk
  /\ last' = [Op("handleMessage", c, m) EXCEPT
                !.threw = HandleMessageResult(c, m, mode).threw]
  /\ UNCHANGED << wsServer, activeConnections, readyState, mainWindow >>
  /\ UNCHANGED nonHostVars

\* getHotkeyTabs / getHotkeyTabContent resumed after executeJavaScript: a
\* result with success, or a result without it or a rejection (both answered
\* with the handler's own error code)
HotkeyQueryError(kind) ==
  IF kind = "getHotkeyTabs" THEN "HOTKEY_FETCH_ERROR" ELSE "HOTKEY_CONTENT_FETCH_ERROR"

ResumeHotkeyQuery(i, ok) ==
  /\ i \in 1..Len(tasks)
  /\ tasks[i].kind \in {"getHotkeyTabs", "getHotkeyTabContent"}
  /\ LET t == tasks[i] IN
       sent' = IF ok
                 THEN Respond(t.ws, t.kind, [NoPayload EXCEPT !.tabNumber = t.tab])
                 ELSE Reject(t.ws, t.kind, HotkeyQueryError(t.kind))
  /\ tasks' = RemoveAt(tasks, i)
  /\ ipc' = << >>
  /\ last' = Op("resumeHotkeyQuery", tasks[i].ws, NoMessage)
  /\ UNCHANGED << wsServer, activeConnections, readyState,
                  streamDeckState, mainWindow >>
  /\ UNCHANGED nonHostVars

(* ---------------------------- domain events ---------------------------- *)
\* the objects the renderer hands to updateState
\* (audio-events.js convertToStreamDeckFormat and emitPositionUpdate,
\*  stream-deck-module.js notifyStreamDeckState)
AudioPayload(playState, song, playing, volume) ==
  [NoPayload EXCEPT !.audioState = playState, !.currentSong = song,
                    !.isPlaying = playing, !.volume = volume]

\* audio:play, audio:pause, audio:stop, audio:seek, emitPositionUpdate,
\* audio:loop, audio:mute and audio:volume
EnvelopeUpdates ==
  { Envelope("audioStateUpdate", AudioPayload(PLAYING, Song(1), Bool(TRUE), Num(VolumeOne))),
    Envelope("audioStateUpdate", AudioPayload(PAUSED, Song(1), Bool(FALSE), Num(VolumeOne))),
    Envelope("audioStateUpdate", AudioPayload(STOPPED, Null, Bool(FALSE), Num(VolumeOne))),
    Envelope("positionUpdate", AudioPayload(PLAYING, Song(2), Bool(TRUE), Num(VolumeOne))),
    Envelope("positionUpdate",
             [NoPayload EXCEPT !.position = Num(5), !.duration = Num(9),
                               !.currentSong = Song(2)]),
    Envelope("loopStateUpdate",
             [NoPayload EXCEPT !.loopEnabled = Bool(TRUE), !.audioState = STOPPED,
                               !.currentSong = Null, !.volume = Num(VolumeOne)]),
    Envelope("muteStateUpdate",
             [NoPayload EXCEPT !.muteEnabled = Bool(TRUE), !.audioState = STOPPED,
                               !.currentSong = Null, !.volume = Num(VolumeOne)]),
    Envelope("volumeStateUpdate",
             [NoPayload EXCEPT !.volume = Num(50), !.audioState = STOPPED,
                               !.currentSong = Null, !.muteEnabled = Bool(FALSE)]) }

\* notifyStreamDeckState: {currentSong, isPlaying, volume, position, duration}
LegacyUpdates ==
  { [NoMessage EXCEPT !.payload =
       [NoPayload EXCEPT !.currentSong = Song(1), !.isPlaying = Bool(TRUE),
                         !.volume = Num(50), !.position = Num(0), !.duration = Num(0)]] }

DomainUpdates == EnvelopeUpdates \cup LegacyUpdates

\* Object.assign(target, source) on one property
Assign(old, new) == IF new.t = "absent" THEN old ELSE new

\* the Object.assign of the envelope branch of updateState
EnvelopeAssign(st, u) ==
  LET p == u.payload
      song == Get(p.currentSong)
  IN
  CASE u.action \in {"audioStateUpdate", "positionUpdate"} ->
         [st EXCEPT !.audioState = Get(p.audioState), !.isPlaying = Get(p.isPlaying),
                    !.currentSong = song, !.volume = Get(p.volume),
                    !.position = JsOr(SongPosition(song), Num(0)),
                    !.duration = JsOr(SongDuration(song), Num(0))]
    [] u.action = "loopStateUpdate" ->
         [st EXCEPT !.loopEnabled = Get(p.loopEnabled), !.audioState = Get(p.audioState),
                    !.currentSong = song, !.volume = Get(p.volume)]
    [] u.action = "muteStateUpdate" ->
         [st EXCEPT !.muteEnabled = Get(p.muteEnabled), !.audioState = Get(p.audioState),
                    !.currentSong = song, !.volume = Get(p.volume)]
    [] OTHER -> st

\* Object.assign(streamDeckState, updates) of the legacy branch
LegacyAssign(st, u) ==
  LET p == u.payload IN
  [st EXCEPT !.currentSong = Assign(@, p.currentSong), !.isPlaying = Assign(@, p.isPlaying),
             !.volume = Assign(@, p.volume), !.position = Assign(@, p.position),
             !.duration = Assign(@, p.duration), !.loopEnabled = Assign(@, p.loopEnabled),
             !.muteEnabled = Assign(@, p.muteEnabled),
             !.audioState = Assign(@, p.audioState),
             !.connected = Assign(@, p.connected),
             !.connectionCount = Assign(@, p.connectionCount),
             !.lastActivity = Assign(@, p.lastActivity)]

\* the {type: 'state_update', state: {...streamDeckState, ...}} of broadcastStateUpdate
StateUpdateMessage(st) ==
  [ NoMessage EXCEPT
      !.type = "state_update",
      !.payload = [ NoPayload EXCEPT
          !.audioState = st.audioState, !.isPlaying = st.isPlaying,
          !.currentSong = st.currentSong, !.volume = st.volume,
          !.position = st.position, !.duration = st.duration,
          !.connectionCount = st.connectionCount, !.lastActivity = st.lastActivity,
          !.connected = st.connected, !.loopEnabled = st.loopEnabled,
          !.muteEnabled = st.muteEnabled ] ]

\* updates && updates.action && updates.payload (the payload is an object)
IsActionFormat(u) == u.action # ""

\* updateState(updates)
UpdateState(u) ==
  /\ IF IsActionFormat(u)
       THEN /\ sent' = BroadcastMessage(NoneSent, u, {})
            /\ streamDeckState' = EnvelopeAssign(streamDeckState, u)
       ELSE /\ streamDeckState' = LegacyAssign(streamDeckState, u)
            /\ sent' = BroadcastMessage(NoneSent, StateUpdateMessage(streamDeckState'), {})
  /\ ipc' = << >>
  /\ last' = Op("updateState", 0, u)
  /\ UNCHANGED << wsServer, activeConnections, readyState, mainWindow, tasks >>
  /\ UNCHANGED nonHostVars

\* the exported broadcastMessage(message), called for the renderer's
\* streamDeck.broadcast; fails are the sockets whose ws.send throws
BroadcastInputs ==
  { Envelope("audioStateUpdate", [NoPayload EXCEPT !.isPlaying = Bool(TRUE)]) }

Broadcast(message, fails) ==
  /\ sent' = BroadcastMessage(NoneSent, message, fails)
  /\ ipc' = << >>
  /\ last' = [Op("broadcastMessage", 0, message) EXCEPT !.fails = fails]
  /\ UNCHANGED << wsServer, activeConnections, readyState, streamDeckState,
                  mainWindow, tasks >>
  /\ UNCHANGED nonHostVars

(* ------------------------- hotkey state updates ------------------------ *)
\* ipcMain.on('hotkey-added' | 'hotkey-removed' | 'hotkey-updated' |
\*            'hotkey-cleared' | 'hotkey-tab-changed')
HotkeyChanges == {"added", "removed", "updated", "cleared", "tab-changed"}
HotkeyTabs == {Num(2)}

HotkeyMessage(tab, change) ==
  [NoMessage EXCEPT !.action = "hotkeyStateUpdate", !.about = change,
                    !.payload = [NoPayload EXCEPT !.changedTab = tab]]

\* broadcastToAll(hotkeyUpdate): the module defines no broadcastToAll, the
\* call raises a ReferenceError that the try of sendHotkeyStateUpdate catches
\* and logs; nothing is sent
BroadcastToAll(out, message) == out

\* sendHotkeyStateUpdate(tabNumber, action) up to its first await
HotkeyEvent(tab, change) ==
  /\ IF Len(activeConnections) = 0
       THEN /\ sent' = NoneSent
            /\ UNCHANGED tasks
       ELSE IF mainWindow
         THEN /\ Len(tasks) < MaxTasks
              /\ tasks' = Append(tasks, Task("sendHotkeyStateUpdate", 0, "exec",
                                             Absent, Absent, tab, change))
              /\ sent' = NoneSent
         ELSE /\ sent' = BroadcastToAll(NoneSent, HotkeyMessage(tab, change))
              /\ UNCHANGED tasks
  /\ ipc' = << >>
  /\ last' = Op(IF Len(activeConnections) # 0 /\ mainWindow
                  THEN "hotkeyEvent" ELSE "hotkeyUpdate",
                0, HotkeyMessage(tab, change))
  /\ UNCHANGED << wsServer, activeConnections, readyState, streamDeckState,
                  mainWindow >>
  /\ UNCHANGED nonHostVars

\* sendHotkeyStateUpdate resumed after executeJavaScript (settled either way)
ResumeHotkeyUpdate(i) ==
  /\ i \in 1..Len(tasks)
  /\ tasks[i].kind = "sendHotkeyStateUpdate"
  /\ sent' = BroadcastToAll(NoneSent, HotkeyMessage(tasks[i].tab, tasks[i].change))
  /\ tasks' = RemoveAt(tasks, i)
  /\ ipc' = << >>
  /\ last' = Op("hotkeyUpdate", 0, HotkeyMessage(tasks[i].tab, tasks[i].change))
  /\ UNCHANGED << wsServer, activeConnections, readyState, streamDeckState,
                  mainWindow >>
  /\ UNCHANGED nonHostVars

(* --------------------------- JSON on the wire -------------------------- *)
\* A JSON text is kept as what it says: per property the literal written
\* for it, or nothing when the property is left out.
Omitted == [lit |-> "", v |-> 0]

\* mutant: null is written like undefined, that is not at all
JsonValue_OmitsNull(x) ==
  CASE x.t \in {"absent", "undefined", "null"} -> Omitted
    [] x.t = "boolean" -> [lit |-> IF x.v = 1 THEN "true" ELSE "false", v |-> 0]
    [] x.t = "number" -> [lit |-> "number", v |-> x.v]
    [] x.t = "string" -> [lit |-> "string", v |-> x.v]
    [] OTHER -> [lit |-> "object", v |-> x.v]

\* JSON.stringify of the value of a property: a property that is undefined
\* is left out of the text
JsonValue(x) ==
  CASE x.t \in {"absent", "undefined"} -> Omitted
    [] x.t = "null" -> [lit |-> "null", v |-> 0]
    [] x.t = "boolean" -> [lit |-> IF x.v = 1 THEN "true" ELSE "false", v |-> 0]
    [] x.t = "number" -> [lit |-> "number", v |-> x.v]
    [] x.t = "string" -> [lit |-> "string", v |-> x.v]
    [] OTHER -> [lit |-> "object", v |-> x.v]

\* JSON.stringify(message) of sendMessage
JsonStringify(m) ==
  [ action |-> m.action, type |-> m.type, success |-> m.success, code |-> m.code,
    about |-> m.about, command |-> m.command, timestamp |-> JsonValue(m.timestamp),
    payload |-> [f \in DOMAIN m.payload |-> JsonValue(m.payload[f])] ]

\* the value JSON.parse makes of a literal
ParsedValue(tok) ==
  CASE tok.lit = "" -> Absent
    [] tok.lit = "null" -> Null
    [] tok.lit = "true" -> Bool(TRUE)
    [] tok.lit = "false" -> Bool(FALSE)
    [] tok.lit = "number" -> Num(tok.v)
    [] tok.lit = "string" -> AudioStateStr(tok.v)
    [] OTHER -> Song(tok.v)

\* JSON.parse(event.data) of the client's handleWebSocketMessage
JsonParse(text) ==
  [ json |-> "object", action |-> text.action, type |-> text.type,
    success |-> text.success, code |-> text.code, about |-> text.about,
    command |-> text.command, timestamp |-> ParsedValue(text.timestamp),
    payload |-> [f \in DOMAIN text.payload |-> ParsedValue(text.payload[f])] ]

\* a payload JSON can carry: no property of it is undefined
JsonSerializable(p) == \A f \in DOMAIN p : p[f].t # "undefined"

(* ------------------------ control-surface client ----------------------- *)
\* The Stream Deck plugin: its reconnection engine.  Times are kept in
\* eighths of a millisecond, the resolution at which every delay the engine
\* computes (3000 * 1.5^n) is an integer.
MsScale == 8
Ms(n) == n * MsScale

\* MXVOICE_CONFIG
ReconnectDelay == Ms(3000)
MaxReconnectDelay == Ms(30000)
MaxReconnectAttempts == 10
SlowReconnectDelay == Ms(60000)
PingInterval == Ms(30000)
\* currentReconnectDelay * MXVOICE_CONFIG.reconnectBackoffMultiplier (1.5)
TimesBackoffMultiplier(d) == (d * 3) \div 2

DOUBLE_TAP_THRESHOLD == Ms(500)

Min(a, b) == IF a <= b THEN a ELSE b

\* The socket objects the plugin has created and whose events can still fire.
\*   NONE        no such object (never created, or its close event has fired)
\*   CONNECTING  new WebSocket(url), handshake in progress
\*   OPEN        the open event has fired
\*   CLOSING     close(1000) was called on it while OPEN
\*   ABORTED     close(1000) was called on it while CONNECTING
Socks == 1..NumSockets
NoSocket == 0
CleanClose == 1000
AbnormalClose == 1006
CloseCodes == {CleanClose, AbnormalClose}

\* the close codes the close event of a socket can carry
CloseCodesOf(rs) ==
  CASE rs = "OPEN" -> CloseCodes
    [] rs = "CLOSING" -> CloseCodes
    [] rs \in {"CONNECTING", "ABORTED"} -> {AbnormalClose}
    [] OTHER -> {}

\* a network event is observed a positive time after the attempt; the model
\* keeps the least such time
Latency == 1

\* a timer variable: null, a pending timer, or (for the timeout) the stale id
\* of a timer that has fired.  lag is the time between the last connection
\* attempt and the moment the timer was armed.
NullTimer == [state |-> "null", delay |-> 0, lag |-> 0]
Timer(delay, lag) == [state |-> "pending", delay |-> delay, lag |-> lag]
TimerTruthy(t) == t.state # "null"

\* The plugin's globals as one value, with what the step has done so far:
\* connects is the number of connectToMxVoice() calls, closes the sockets
\* close(1000, ...) was called on, pings the number of pings sent.
Plugin ==
  [ websocket |-> websocket, sockets |-> sockets, isConnected |-> isConnected,
    reconnectAttempts |-> reconnectAttempts,
    currentReconnectDelay |-> currentReconnectDelay,
    reconnectTimer |-> reconnectTimer, slowReconnectTimer |-> slowReconnectTimer,
    pingTimer |-> pingTimer, lastPlayPausePress |-> lastPlayPausePress,
    sinceAttempt |-> sinceAttempt, audioState |-> audioState,
    commands |-> << >>,
    connects |-> 0, closes |-> {}, pings |-> 0 ]

FreeSocks(k) == {s \in Socks : k.sockets[s] = "NONE"}
LeastFree(k) == CHOOSE s \in FreeSocks(k) : \A t \in FreeSocks(k) : s <= t

\* connectToMxVoice(): new WebSocket(wsUrl) with the constant, well-formed
\* url does not throw; the previous value of websocket is overwritten
ConnectToMxVoice(k) ==
  LET s == LeastFree(k) IN
    [k EXCEPT !.websocket = s, !.sockets[s] = "CONNECTING",
              !.sinceAttempt = 0, !.connects = @ + 1]

\* clearReconnectTimers()
ClearReconnectTimers(k) ==
  [k EXCEPT !.reconnectTimer = NullTimer, !.slowReconnectTimer = NullTimer]

\* stopPingTimer()
StopPingTimer(k) == [k EXCEPT !.pingTimer = NullTimer]

\* startPingTimer()
StartPingTimer(k) ==
  [StopPingTimer(k) EXCEPT !.pingTimer = Timer(PingInterval, 0)]

StartSlowReconnect_UsesBackoffDelay(k) ==
  [k EXCEPT !.slowReconnectTimer = Timer(k.currentReconnectDelay, k.sinceAttempt)]

\* startSlowReconnect()
StartSlowReconnect(k) ==
  [k EXCEPT !.slowReconnectTimer = Timer(SlowReconnectDelay, k.sinceAttempt)]

ScheduleReconnect_DelayAfterGrowth(k) ==
  LET c == ClearReconnectTimers(k) IN
    IF c.reconnectAttempts < MaxReconnectAttempts
      THEN [c EXCEPT
              !.reconnectAttempts = @ + 1,
              !.currentReconnectDelay =
                 Min(TimesBackoffMultiplier(c.currentReconnectDelay), MaxReconnectDelay),
              !.reconnectTimer =
                 Timer(Min(TimesBackoffMultiplier(c.currentReconnectDelay),
                           MaxReconnectDelay), c.sinceAttempt)]
      ELSE StartSlowReconnect(c)

\* a scheduler that gives up after the fast attempts
ScheduleReconnect_GivesUp(k) ==
  LET c == ClearReconnectTimers(k) IN
    IF c.reconnectAttempts < MaxReconnectAttempts
      THEN [c EXCEPT
              !.reconnectAttempts = @ + 1,
              !.reconnectTimer =
                 Timer(Min(c.currentReconnectDelay, MaxReconnectDelay), c.sinceAttempt),
              !.currentReconnectDelay =
                 Min(TimesBackoffMultiplier(c.currentReconnectDelay), MaxReconnectDelay)]
      ELSE c

\* scheduleReconnect()
ScheduleReconnect(k) ==
  LET c == ClearReconnectTimers(k) IN
    IF c.reconnectAttempts < MaxReconnectAttempts
      THEN [c EXCEPT
              !.reconnectAttempts = @ + 1,
              !.reconnectTimer =
                 Timer(Min(c.currentReconnectDelay, MaxReconnectDelay), c.sinceAttempt),
              !.currentReconnectDelay =
                 Min(TimesBackoffMultiplier(c.currentReconnectDelay), MaxReconnectDelay)]
      ELSE StartSlowReconnect(c)

\* sendMessage(message): sent when websocket is an OPEN socket
CanSend(k) == k.websocket # NoSocket /\ k.sockets[k.websocket] = "OPEN"

HandleWebSocketOpen_KeepsTimers(k) ==
  StartPingTimer(
    [k EXCEPT !.isConnected = TRUE, !.reconnectAttempts = 0,
              !.currentReconnectDelay = ReconnectDelay])

\* handleWebSocketOpen()
HandleWebSocketOpen(k) ==
  StartPingTimer(ClearReconnectTimers(
    [k EXCEPT !.isConnected = TRUE, !.reconnectAttempts = 0,
              !.currentReconnectDelay = ReconnectDelay]))

HandleWebSocketClose_OnlyWhenConnected(k, code) ==
  LET c == StopPingTimer([k EXCEPT !.isConnected = FALSE, !.websocket = NoSocket]) IN
    IF code # CleanClose /\ k.isConnected THEN ScheduleReconnect(c) ELSE c

\* handleWebSocketClose(event)
HandleWebSocketClose(k, code) ==
  LET c == StopPingTimer([k EXCEPT !.isConnected = FALSE, !.websocket = NoSocket]) IN
    IF code # CleanClose THEN ScheduleReconnect(c) ELSE c

\* handleWebSocketError(error)
HandleWebSocketError(k) == [k EXCEPT !.isConnected = FALSE]

\* websocket.close(1000, reason): starts the closing handshake of an open
\* socket, aborts a connecting one, does nothing to one already closing
CloseSocket(k, s) ==
  [k EXCEPT !.closes = @ \cup {s},
            !.sockets[s] = CASE @ = "OPEN" -> "CLOSING"
                             [] @ = "CONNECTING" -> "ABORTED"
                             [] OTHER -> @]

\* forceReconnect()
ForceReconnect(k) ==
  LET a == IF k.websocket # NoSocket THEN CloseSocket(k, k.websocket) ELSE k
      b == StopPingTimer(ClearReconnectTimers(a))
  IN ConnectToMxVoice(
       [b EXCEPT !.isConnected = FALSE, !.reconnectAttempts = 0,
                 !.currentReconnectDelay = ReconnectDelay])

\* ensureConnection(context, actionName) returns true
Ensured(k) == k.isConnected /\ CanSend(k)

EnsureConnection_WaitsForTimer(k) ==
  IF Ensured(k) THEN k
  ELSE IF ~TimerTruthy(k.reconnectTimer) /\ ~TimerTruthy(k.slowReconnectTimer)
    THEN ForceReconnect(k)
    ELSE k

\* ensureConnection(context, actionName)
EnsureConnection(k) ==
  IF Ensured(k) THEN k
  ELSE IF ~TimerTruthy(k.reconnectTimer) /\ ~TimerTruthy(k.slowReconnectTimer)
    THEN ForceReconnect(k)
    ELSE ConnectToMxVoice(ClearReconnectTimers(k))

\* the audioState object of the plugin as loaded
InitialAudioState ==
  [ isPlaying |-> Bool(FALSE), isPaused |-> Bool(FALSE), isStopped |-> Bool(TRUE),
    currentSong |-> Null, volume |-> Num(VolumeOne), position |-> Num(0),
    duration |-> Num(0), loopEnabled |-> Bool(FALSE), muteEnabled |-> Bool(FALSE),
    audioState |-> Absent ]

\* !a and a && b
JsNot(a) == Bool(~Truthy(a))
JsAnd(a, b) == IF Truthy(a) THEN b ELSE a

\* the object sendCommand builds: {type: 'command', command, params}
CommandMessage(command) == [NoMessage EXCEPT !.type = "command", !.command = command]

\* sendCommand(command) through sendMessage(message): sent only when the
\* socket websocket refers to is OPEN
SendCommand(k, command) ==
  IF CanSend(k) THEN [k EXCEPT !.commands = Append(@, CommandMessage(command))] ELSE k

\* the three flags the plugin flips after a command
Flags(k, playing, paused, stopped) ==
  [k EXCEPT !.audioState.isPlaying = Bool(playing),
            !.audioState.isPaused = Bool(paused),
            !.audioState.isStopped = Bool(stopped)]

\* handlePlayPause(context, settings).  within says whether
\* now - lastPlayPausePress is below DOUBLE_TAP_THRESHOLD; 0 stands for the
\* value 0 of lastPlayPausePress, 1 for a recorded press time.
HandlePlayPause(k, within) ==
  IF ~k.isConnected
    THEN IF k.lastPlayPausePress = 1 /\ within
           THEN [ForceReconnect(k) EXCEPT !.lastPlayPausePress = 0]
           ELSE [k EXCEPT !.lastPlayPausePress = 1]
    ELSE LET a == k.audioState
             pressed == [k EXCEPT !.lastPlayPausePress = 1]
         IN IF Truthy(a.isStopped) \/ (~Truthy(a.isPlaying) /\ ~Truthy(a.isPaused))
              THEN Flags(SendCommand(pressed, "playTrack"), TRUE, FALSE, FALSE)
            ELSE IF Truthy(a.isPlaying)
              THEN Flags(SendCommand(pressed, "pauseTrack"), FALSE, TRUE, FALSE)
              ELSE Flags(SendCommand(pressed, "playTrack"), TRUE, FALSE, FALSE)

\* handleStop(context, settings)
HandleStop(k) ==
  [Flags(SendCommand(k, "stopTrack"), FALSE, FALSE, TRUE) EXCEPT
     !.audioState.currentSong = Null]

\* handleLoopToggle(context, settings)
HandleLoopToggle(k) ==
  [SendCommand(k, "toggleLoop") EXCEPT
     !.audioState.loopEnabled = JsNot(k.audioState.loopEnabled)]

\* handleMuteToggle(context, settings)
HandleMuteToggle(k) ==
  [SendCommand(k, "toggleMute") EXCEPT
     !.audioState.muteEnabled = JsNot(k.audioState.muteEnabled)]

\* onKeyDown(action, context, settings, ...)
OnKeyDown(k, action, within) ==
  IF ~Ensured(k)
    THEN IF action = "PLAY_PAUSE"
           THEN HandlePlayPause(EnsureConnection(k), within)
           ELSE EnsureConnection(k)
    ELSE CASE action = "PLAY_PAUSE" -> HandlePlayPause(k, within)
           [] action = "STOP" -> HandleStop(k)
           [] action = "LOOP" -> HandleLoopToggle(k)
           [] action = "MUTE" -> HandleMuteToggle(k)
           [] OTHER -> k

\* a property of a payload that is not undefined
Defined(x) == Get(x).t # "undefined"

\* handleAudioStateUpdate(payload)
HandleAudioStateUpdate(a, p) ==
  [a EXCEPT
     !.currentSong = IF Truthy(p.currentSong) THEN p.currentSong ELSE @,
     !.isPlaying = IF Defined(p.isPlaying) THEN p.isPlaying ELSE @,
     !.volume = IF Defined(p.volume) THEN p.volume ELSE @,
     !.audioState = IF Truthy(p.audioState) THEN p.audioState ELSE @,
     !.isPaused = JsAnd(JsNot(p.isPlaying), Get(p.currentSong)),
     !.isStopped = JsAnd(JsNot(p.isPlaying), JsNot(p.currentSong))]

\* handlePositionUpdate(payload)
HandlePositionUpdate(a, p) ==
  [a EXCEPT !.position = IF Defined(p.position) THEN p.position ELSE @,
            !.duration = IF Defined(p.duration) THEN p.duration ELSE @]

\* handleLoopStateUpdate(payload)
HandleLoopStateUpdate(a, p) ==
  [a EXCEPT !.loopEnabled = IF Defined(p.loopEnabled) THEN p.loopEnabled ELSE @]

\* handleMuteStateUpdate(payload)
HandleMuteStateUpdate(a, p) ==
  [a EXCEPT !.muteEnabled = IF Defined(p.muteEnabled) THEN p.muteEnabled ELSE @]

\* Object.assign(audioState, state) of handleStateUpdate on one property
\* present in both objects
Assigned(old, new) == IF new.t = "absent" THEN old ELSE new

\* handleStateUpdate(state) for the connectionStateUpdate payload
HandleStateUpdate(a, p) ==
  LET b == [a EXCEPT !.isPlaying = Assigned(@, p.isPlaying),
                     !.currentSong = Assigned(@, p.currentSong),
                     !.volume = Assigned(@, p.volume),
                     !.position = Assigned(@, p.position),
                     !.duration = Assigned(@, p.duration),
                     !.loopEnabled = Assigned(@, p.loopEnabled),
                     !.muteEnabled = Assigned(@, p.muteEnabled),
                     !.audioState = Assigned(@, p.audioState)]
  IN IF Truthy(p.isPlaying)
       THEN [b EXCEPT !.isPlaying = Bool(TRUE), !.isPaused = Bool(FALSE),
                      !.isStopped = Bool(FALSE)]
     ELSE IF Truthy(p.currentSong) /\ ~Truthy(p.isPlaying)
       THEN [b EXCEPT !.isPlaying = Bool(FALSE), !.isPaused = Bool(TRUE),
                      !.isStopped = Bool(FALSE)]
       ELSE [b EXCEPT !.isPlaying = Bool(FALSE), !.isPaused = Bool(FALSE),
                      !.isStopped = Bool(TRUE)]

\* handleWebSocketMessage(event) on the parsed message: only a message
\* with an action is looked at
HandleWebSocketMessage(k, m) ==
  IF m.json # "object" \/ m.action = "" THEN k
  ELSE [k EXCEPT !.audioState =
          CASE m.action = "connectionStateUpdate" -> HandleStateUpdate(@, m.payload)
            [] m.action = "audioStateUpdate" -> HandleAudioStateUpdate(@, m.payload)
            [] m.action = "positionUpdate" -> HandlePositionUpdate(@, m.payload)
            [] m.action = "loopStateUpdate" -> HandleLoopStateUpdate(@, m.payload)
            [] m.action = "muteStateUpdate" -> HandleMuteStateUpdate(@, m.payload)
            [] OTHER -> @]

\* the sockets a handler may create in one step: forceReconnect after
\* ensureConnection creates two
Room(k, n) == Cardinality(FreeSocks(k)) >= n

\* the step's result becomes the plugin's state
\* The plugin's last step: the event, its socket (was: where the socket
\* stood before the event) and close code, for a timer
\* callback the time since the previous connection attempt, the button, and
\* what the handler did.  quiet is kept across steps: a close with the clean
\* code has been observed and no button press or force reconnect since.
Ev(op, sock, code, spacing) ==
  [op |-> op, sock |-> sock, was |-> "", code |-> code, spacing |-> spacing,
   action |-> "", connects |-> 0, closes |-> {}, pings |-> 0, quiet |-> FALSE,
   msg |-> NoMessage]

UserEvents == {"onKeyDown", "forceReconnect"}

PluginBecomes(k, e) ==
  /\ websocket' = k.websocket
  /\ sockets' = k.sockets
  /\ isConnected' = k.isConnected
  /\ reconnectAttempts' = k.reconnectAttempts
  /\ currentReconnectDelay' = k.currentReconnectDelay
  /\ reconnectTimer' = k.reconnectTimer
  /\ slowReconnectTimer' = k.slowReconnectTimer
  /\ pingTimer' = k.pingTimer
  /\ lastPlayPausePress' = k.lastPlayPausePress
  /\ sinceAttempt' = k.sinceAttempt
  /\ audioState' = k.audioState
  /\ commands' = k.commands
  /\ event' = [e EXCEPT !.connects = k.connects, !.closes = k.closes,
                          !.pings = k.pings,
                          !.quiet = IF e.op \in UserEvents THEN FALSE
                                    ELSE IF e.op = "close" /\ e.code = CleanClose THEN TRUE
                                    ELSE event.quiet]
  /\ UNCHANGED nonPluginVars

\* a network event of the last attempt's or an older socket: time has passed
Later(k) == [k EXCEPT !.sinceAttempt = Latency]

\* onConnected(): initializePlugin()
InitializePlugin ==
  /\ event.op = "load"
  /\ PluginBecomes(ConnectToMxVoice(Plugin), Ev("initializePlugin", NoSocket, 0, 0))

\* websocket.onopen
SocketOpen(s) ==
  /\ sockets[s] = "CONNECTING"
  /\ PluginBecomes(HandleWebSocketOpen(Later([Plugin EXCEPT !.sockets[s] = "OPEN"])),
                   Ev("open", s, 0, 0))

\* websocket.onerror and websocket.onclose, or websocket.onclose alone: a
\* connection that fails or breaks fires error and close in one task, a
\* connection closed by a closing handshake fires close alone
SocketClose(s, code, failed) ==
  /\ code \in CloseCodesOf(sockets[s])
  /\ failed => code = AbnormalClose
  /\ sockets[s] = "CONNECTING" => failed
  /\ LET k == Later([Plugin EXCEPT !.sockets[s] = "NONE"]) IN
       PluginBecomes(HandleWebSocketClose(IF failed THEN HandleWebSocketError(k) ELSE k, code),
                     [Ev("close", s, code, 0) EXCEPT !.was = sockets[s]])

\* the setTimeout callback of scheduleReconnect; the variable keeps the id
ReconnectTimerFires ==
  /\ reconnectTimer.state = "pending"
  /\ Room(Plugin, 1)
  /\ PluginBecomes(ConnectToMxVoice([Plugin EXCEPT !.reconnectTimer.state = "fired"]),
                   Ev("reconnectTimer", NoSocket, 0, reconnectTimer.delay + reconnectTimer.lag))

\* the setInterval callback of startSlowReconnect; the interval runs on
SlowReconnectTick ==
  /\ slowReconnectTimer.state = "pending"
  /\ isConnected \/ Room(Plugin, 1)
  /\ IF ~isConnected
       THEN PluginBecomes(
              ConnectToMxVoice([Plugin EXCEPT !.slowReconnectTimer.lag = 0]),
              Ev("slowReconnectTimer", NoSocket, 0,
                 slowReconnectTimer.delay + slowReconnectTimer.lag))
       ELSE PluginBecomes([Plugin EXCEPT !.slowReconnectTimer = NullTimer],
                          Ev("slowReconnectTimer", NoSocket, 0, 0))

\* the setInterval callback of startPingTimer
PingTick ==
  /\ pingTimer.state = "pending"
  /\ PluginBecomes([Plugin EXCEPT !.pings = IF isConnected /\ CanSend(Plugin) THEN 1 ELSE 0],
                   Ev("pingTimer", NoSocket, 0, 0))

\* a button press
KeyDown(action, within) ==
  /\ Ensured(Plugin) \/ Room(Plugin, 1)
  /\ Ensured(Plugin) \/ Room(EnsureConnection(Plugin), 1)
  /\ PluginBecomes(OnKeyDown(Plugin, action, within),
                   [Ev("onKeyDown", NoSocket, 0, 0) EXCEPT !.action = action])

\* forceReconnect() called from the user interface
ForceReconnectNow ==
  /\ Room(Plugin, 1)
  /\ PluginBecomes(ForceReconnect(Plugin), Ev("forceReconnect", NoSocket, 0, 0))

ButtonActions == {"PLAY_PAUSE", "STOP"}
DisplayActions == {"PLAY_PAUSE", "STOP", "LOOP", "MUTE"}

\* what the host puts on the wire for a domain event, as the client parses
\* it: the forwarded envelopes and the state_update of the legacy branch
HostMessages ==
  { JsonParse(JsonStringify(u)) : u \in EnvelopeUpdates }
  \cup { JsonParse(JsonStringify(StateUpdateMessage(LegacyAssign(DefaultState, u)))) :
           u \in LegacyUpdates }

\* websocket.onmessage of an open socket
Message(s, m) ==
  /\ sockets[s] = "OPEN"
  /\ PluginBecomes(HandleWebSocketMessage(Plugin, m),
                   [Ev("message", s, 0, 0) EXCEPT !.msg = m])

\* what updatePlayPauseVisuals puts on the play/pause button
Shown(a) ==
  IF Truthy(a.isPlaying) THEN PLAYING
  ELSE IF Truthy(a.isPaused) THEN PAUSED ELSE STOPPED

(* ---------------------- hotkey tabs of the renderer -------------------- *)
\* HotkeysModule: switchToHotkeyTab and the shown.bs.tab listener.  Times
\* are milliseconds and the clock advances in steps of ClockStep; an age is
\* Date.now() minus a recorded timestamp, kept up to DedupWindow because
\* the program only asks whether it is below that.
ClockStep == 100
DedupWindow == 500
NotifyDelay == 100
FlagDelay == 200

Tabs == 1..NumTabs
TabKeys == {k \in Tabs \X Tabs : k[1] # k[2]}
NoKey == <<0, 0>>

Aged(a) == Min(a + ClockStep, DedupWindow)
Remaining(d) == IF d > ClockStep THEN d - ClockStep ELSE 0

\* this._lastNotification: null, or the record of the last emission
NoNotification == [t |-> "null", fromTab |-> 0, toTab |-> 0, age |-> 0]
Notification(from, to) == [t |-> "object", fromTab |-> from, toTab |-> to, age |-> 0]

\* a check against every notification emitted in the window, not only the
\* last one (for the watched key)
IsDuplicate_AnyEmitted(lastN, from, to) ==
  \/ /\ <<from, to>> = watched
     /\ lastEmit < DedupWindow
  \/ /\ lastN.t = "object"
     /\ lastN.fromTab = from
     /\ lastN.toTab = to
     /\ lastN.age < DedupWindow

\* the check both paths make before they go on
IsDuplicate(lastN, from, to) ==
  /\ lastN.t = "object"
  /\ lastN.fromTab = from
  /\ lastN.toTab = to
  /\ lastN.age < DedupWindow

\* what a step of the tab code did: the key it handled, whether it called
\* notifyHotkeyChange('tab-switched'), whether it dropped the notification,
\* and the age of the last emission of the same key before the step
TabEv(op, from, to) ==
  [op |-> op, fromTab |-> from, toTab |-> to, emitted |-> FALSE,
   suppressed |-> FALSE, since |-> DedupWindow]

Since(from, to) == IF <<from, to>> = watched THEN lastEmit ELSE DedupWindow

Emitted(op, from, to) ==
  [TabEv(op, from, to) EXCEPT !.emitted = TRUE, !.since = Since(from, to)]

Suppressed(op, from, to) ==
  [TabEv(op, from, to) EXCEPT !.suppressed = TRUE, !.since = Since(from, to)]

\* the age of the watched key after the emission of a notification
EmitAge(from, to) == IF <<from, to>> = watched THEN 0 ELSE lastEmit

\* the tab framework shows a tab: nothing for the active tab, else the tab
\* becomes active and a shown.bs.tab event (relatedTarget: the tab that was
\* active) is due.  cause tells what showed the tab: "click", or the call
\* of switchToHotkeyTab, which "notifies" itself 100 ms later or is "silent"
ShownAfter(tab, cause) ==
  IF tab = activeTab THEN shownEvents
  ELSE Append(shownEvents, [fromTab |-> activeTab, toTab |-> tab, cause |-> cause])

\* switchToHotkeyTab(tab) up to the dynamic import
SwitchToHotkeyTab(tab) ==
  /\ IF IsDuplicate(lastNotification, activeTab, tab)
     THEN /\ tabEvent' = Suppressed("switchToHotkeyTab", activeTab, tab)
          /\ UNCHANGED switches
     ELSE /\ Len(switches) < MaxSwitches
          /\ switches' = Append(switches, [fromTab |-> activeTab, tab |-> tab,
                                           stage |-> "import", left |-> 0])
          /\ tabEvent' = TabEv("switchToHotkeyTab", activeTab, tab)
  /\ UNCHANGED << activeTab, lastNotification, programmaticSwitch, flagTimers,
                  shownEvents, lastEmit >>
  /\ UNCHANGED << watched, nonTabVars >>

\* the callback of import(...).then: showTab and setTimeout(..., 100)
ImportResolved(i) ==
  /\ i \in 1..Len(switches)
  /\ switches[i].stage = "import"
  /\ \A j \in 1..(i - 1) : switches[j].stage # "import"
  /\ switches[i].tab = activeTab \/ Len(shownEvents) < MaxShown
  /\ activeTab' = switches[i].tab
  /\ shownEvents' = ShownAfter(switches[i].tab,
                               IF switches[i].fromTab # switches[i].tab
                               THEN "notifies" ELSE "silent")
  /\ switches' = [switches EXCEPT ![i].stage = "timeout", ![i].left = NotifyDelay]
  /\ tabEvent' = TabEv("showTab", switches[i].fromTab, switches[i].tab)
  /\ UNCHANGED << lastNotification, programmaticSwitch, flagTimers, lastEmit >>
  /\ UNCHANGED << watched, nonTabVars >>

\* the first timeout callback that is due
DueSwitch(i) ==
  /\ i \in 1..Len(switches)
  /\ switches[i].stage = "timeout"
  /\ switches[i].left = 0
  /\ \A j \in 1..(i - 1) : switches[j].stage # "timeout"

Without(seq, i) == [j \in 1..(Len(seq) - 1) |-> IF j < i THEN seq[j] ELSE seq[j + 1]]

\* the callback of setTimeout(..., 100): record, notify, arm the flag timer
NotifyTimeout(i) ==
  /\ DueSwitch(i)
  /\ switches[i].fromTab # switches[i].tab => Len(flagTimers) < MaxFlagTimers
  /\ switches' = Without(switches, i)
  /\ IF switches[i].fromTab # switches[i].tab
     THEN /\ programmaticSwitch' = TRUE
          /\ lastNotification' = Notification(switches[i].fromTab, switches[i].tab)
          /\ lastEmit' = EmitAge(switches[i].fromTab, switches[i].tab)
          /\ flagTimers' = Append(flagTimers, FlagDelay)
          /\ tabEvent' = Emitted("notify", switches[i].fromTab, switches[i].tab)
     ELSE /\ tabEvent' = TabEv("notify", switches[i].fromTab, switches[i].tab)
          /\ UNCHANGED << programmaticSwitch, lastNotification, lastEmit, flagTimers >>
  /\ UNCHANGED << activeTab, shownEvents >>
  /\ UNCHANGED << watched, nonTabVars >>

\* the callback of setTimeout(..., 200)
FlagTimeout ==
  /\ Len(flagTimers) > 0
  /\ Head(flagTimers) = 0
  /\ programmaticSwitch' = FALSE
  /\ flagTimers' = Tail(flagTimers)
  /\ tabEvent' = TabEv("flag", 0, 0)
  /\ UNCHANGED << activeTab, lastNotification, switches, shownEvents, lastEmit >>
  /\ UNCHANGED << watched, nonTabVars >>

\* the user clicks the link of another tab
UserClick(tab) ==
  /\ tab # activeTab
  /\ Len(shownEvents) < MaxShown
  /\ activeTab' = tab
  /\ shownEvents' = ShownAfter(tab, "click")
  /\ tabEvent' = TabEv("click", activeTab, tab)
  /\ UNCHANGED << lastNotification, programmaticSwitch, switches, flagTimers, lastEmit >>
  /\ UNCHANGED << watched, nonTabVars >>

\* a listener that records the notification it drops
ShownTab_RefreshesMarker ==
  /\ Len(shownEvents) > 0
  /\ shownEvents' = Tail(shownEvents)
  /\ LET from == Head(shownEvents).fromTab
         to == Head(shownEvents).toTab
     IN IF programmaticSwitch \/ IsDuplicate(lastNotification, from, to)
        THEN /\ tabEvent' = Suppressed("shown", from, to)
             /\ lastNotification' = Notification(from, to)
             /\ UNCHANGED lastEmit
        ELSE /\ lastNotification' = Notification(from, to)
             /\ lastEmit' = EmitAge(from, to)
             /\ tabEvent' = Emitted("shown", from, to)
  /\ UNCHANGED << activeTab, programmaticSwitch, switches, flagTimers >>
  /\ UNCHANGED << watched, nonTabVars >>

\* the listener of shown.bs.tab
ShownTab ==
  /\ Len(shownEvents) > 0
  /\ shownEvents' = Tail(shownEvents)
  /\ LET from == Head(shownEvents).fromTab
         to == Head(shownEvents).toTab
     IN IF programmaticSwitch \/ IsDuplicate(lastNotification, from, to)
        THEN /\ tabEvent' = Suppressed("shown", from, to)
             /\ UNCHANGED << lastNotification, lastEmit >>
        ELSE /\ lastNotification' = Notification(from, to)
             /\ lastEmit' = EmitAge(from, to)
             /\ tabEvent' = Emitted("shown", from, to)
  /\ UNCHANGED << activeTab, programmaticSwitch, switches, flagTimers >>
  /\ UNCHANGED << watched, nonTabVars >>

\* observation only: before the tab code runs, fix the key whose
\* notifications are timed
Watch(k) ==
  /\ tabEvent.op = "load"
  /\ watched = NoKey
  /\ watched' = k
  /\ UNCHANGED << activeTab, lastNotification, programmaticSwitch, switches,
                  flagTimers, shownEvents, lastEmit, tabEvent >>
  /\ UNCHANGED nonTabVars

\* ClockStep milliseconds pass
Tick ==
  /\ lastNotification' =
       IF lastNotification.t = "object"
       THEN [lastNotification EXCEPT !.age = Aged(@)] ELSE lastNotification
  /\ lastEmit' = Aged(lastEmit)
  /\ switches' = [i \in 1..Len(switches) |->
                    [switches[i] EXCEPT !.left = Remaining(@)]]
  /\ flagTimers' = [i \in 1..Len(flagTimers) |-> Remaining(flagTimers[i])]
  /\ tabEvent' = TabEv("tick", 0, 0)
  /\ UNCHANGED << activeTab, programmaticSwitch, shownEvents >>
  /\ UNCHANGED << watched, nonTabVars >>

(* --------------------------- specifications --------------------------- *)
\* the modules as loaded: no server, no socket, no timer
Init ==
  /\ wsServer = "undefined"
  /\ activeConnections = << >>
  /\ readyState = [c \in Conns |-> "CLOSED"]
  /\ streamDeckState = DefaultState
  /\ mainWindow = TRUE
  /\ tasks = << >>
  /\ sent = NoneSent
  /\ ipc = << >>
  /\ last = Op("init", 0, NoMessage)
  /\ websocket = NoSocket
  /\ sockets = [s \in Socks |-> "NONE"]
  /\ isConnected = FALSE
  /\ reconnectAttempts = 0
  /\ currentReconnectDelay = ReconnectDelay
  /\ reconnectTimer = NullTimer
  /\ slowReconnectTimer = NullTimer
  /\ pingTimer = NullTimer
  /\ lastPlayPausePress = 0
  /\ sinceAttempt = 0
  /\ audioState = InitialAudioState
  /\ commands = << >>
  /\ event = Ev("load", NoSocket, 0, 0)
  /\ activeTab = 1
  /\ lastNotification = NoNotification
  /\ programmaticSwitch = FALSE
  /\ switches = << >>
  /\ flagTimers = << >>
  /\ shownEvents = << >>
  /\ watched = NoKey
  /\ lastEmit = DedupWindow
  /\ tabEvent = TabEv("load", 0, 0)
  /\ serverPort = Num(DefaultPort)
  /\ store = [k \in StoreKeys |-> Absent]
  /\ endpoint = "none"
  /\ busyPorts = {}
  /\ autoStartTimer = FALSE

\* ipcMain of Electron has no invoke method: the call in sendStateUpdate throws
StockIpcMain == {"throws"}

\* another process starts to listen on a port this server does not hold
PortTaken(p) ==
  /\ p \notin busyPorts
  /\ ~(endpoint = "listening" /\ serverPort = Num(p))
  /\ busyPorts' = busyPorts \cup {p}
  /\ UNCHANGED << hostVars, pluginVars, tabVars, serverPort, store, endpoint,
                  autoStartTimer >>

\* the other process gives the port up
PortFreed(p) ==
  /\ p \in busyPorts
  /\ busyPorts' = busyPorts \ {p}
  /\ UNCHANGED << hostVars, pluginVars, tabVars, serverPort, store, endpoint,
                  autoStartTimer >>

\* the preferences dialog stores its checkbox under the key that
\* initializeStreamDeck and the dialog's loadSettings read
PreferenceSaved(enabled) ==
  /\ store["streamdeck_enabled"] # Bool(enabled)
  /\ store' = [store EXCEPT !["streamdeck_enabled"] = Bool(enabled)]
  /\ UNCHANGED << hostVars, pluginVars, tabVars, serverPort, endpoint, busyPorts,
                  autoStartTimer >>

\* the application quits and is launched again: the module is loaded anew
\* with its sockets gone, and the settings store stays as it was
Relaunch ==
  /\ last.op # "init"
  /\ wsServer' = "undefined"
  /\ activeConnections' = << >>
  /\ readyState' = [c \in Conns |-> "CLOSED"]
  /\ streamDeckState' = DefaultState
  /\ mainWindow' = TRUE
  /\ tasks' = << >>
  /\ sent' = NoneSent
  /\ ipc' = << >>
  /\ last' = Op("init", 0, NoMessage)
  /\ serverPort' = Num(DefaultPort)
  /\ endpoint' = "none"
  /\ autoStartTimer' = FALSE
  /\ UNCHANGED << pluginVars, tabVars, store, busyPorts >>

\* what the renderer passes to updateConfig as config.port
ConfigPorts == {Undef, Num(DefaultPort), Num(OtherPort), Num(BadPort)}

\* Settings: the server is started, stopped and configured while other
\* processes take and free its ports, and the application is relaunched
NextConfig ==
  \/ InitializeStreamDeck
  \/ AutoStartFires
  \/ StartServer
  \/ StopServer
  \/ HandleServerError
  \/ \E port \in ConfigPorts : UpdateConfig(port)
  \/ \E c \in Conns, mode \in StockIpcMain : HandleConnection(c, mode)
  \/ \E p \in Ports : PortTaken(p)
  \/ \E p \in Ports : PortFreed(p)
  \/ \E enabled \in BOOLEAN : PreferenceSaved(enabled)
  \/ Relaunch

SpecConfig == Init /\ [][NextConfig]_vars

\* Message dispatch: the sockets come and go, the renderer window comes and
\* goes, and every kind of inbound message is handled
NextDispatch ==
  \/ StartServer
  \/ \E c \in Conns, mode \in StockIpcMain : HandleConnection(c, mode)
  \/ \E c \in Conns : PeerClose(c)
  \/ \E c \in Conns : HandleDisconnection(c)
  \/ \E c \in Conns, m \in InboundMessages, mode \in StockIpcMain : HandleMessage(c, m, mode)
  \/ \E i \in 1..MaxTasks, ok \in BOOLEAN : ResumeHotkeyQuery(i, ok)
  \/ MainWindowChange

SpecDispatch == Init /\ [][NextDispatch]_vars

\* Broadcast: the sockets come and go while the renderer feeds every kind of
\* domain event and the hotkey listeners fire
NextBroadcast ==
  \/ StartServer
  \/ \E c \in Conns, mode \in StockIpcMain : HandleConnection(c, mode)
  \/ \E c \in Conns : PeerClose(c)
  \/ \E c \in Conns : HandleDisconnection(c)
  \/ \E u \in DomainUpdates : UpdateState(u)
  \/ \E m \in BroadcastInputs, fails \in SUBSET Conns : Broadcast(m, fails)
  \/ \E tab \in HotkeyTabs, change \in HotkeyChanges : HotkeyEvent(tab, change)
  \/ \E i \in 1..MaxTasks : ResumeHotkeyUpdate(i)
  \/ MainWindowChange

SpecBroadcast == Init /\ [][NextBroadcast]_vars

\* Lifecycle: the server is started and stopped, sockets are accepted, closed
\* and fail, with an ipcMain whose invoke may also return a promise, while
\* messages and domain events arrive
LifecycleMessages ==
  { [NoMessage EXCEPT !.type = "ping"],
    Envelope("bogus", NoPayload),
    Envelope("setVolume", [NoPayload EXCEPT !.volume = Num(0)]),
    Envelope("getState", NoPayload) }

LifecycleUpdates ==
  { Envelope("audioStateUpdate", AudioPayload(PLAYING, Song(1), Bool(TRUE), Num(VolumeOne))) }
  \cup LegacyUpdates

NextLifecycle ==
  \/ StartServer
  \/ StopServer
  \/ \E c \in Conns, mode \in InvokeModes : HandleConnection(c, mode)
  \/ \E c \in Conns : PeerClose(c)
  \/ \E c \in Conns : HandleDisconnection(c)
  \/ \E c \in Conns : HandleConnectionError(c)
  \/ \E c \in Conns, m \in LifecycleMessages, mode \in InvokeModes : HandleMessage(c, m, mode)
  \/ \E i \in 1..MaxTasks, r \in InvokeResults : ResumeLoopState(i, r)
  \/ \E i \in 1..MaxTasks, r \in InvokeResults : ResumeMuteState(i, r)
  \/ \E u \in LifecycleUpdates : UpdateState(u)
  \/ MainWindowChange

SpecLifecycle == Init /\ [][NextLifecycle]_vars

\* the plugin against a host that accepts, refuses, drops and shuts down
NextPlugin ==
  \/ InitializePlugin
  \/ \E s \in Socks : SocketOpen(s)
  \/ \E s \in Socks, code \in CloseCodes, failed \in BOOLEAN : SocketClose(s, code, failed)
  \/ ReconnectTimerFires
  \/ SlowReconnectTick
  \/ PingTick
  \/ \E action \in ButtonActions, within \in BOOLEAN : KeyDown(action, within)
  \/ ForceReconnectNow

SpecPlugin == Init /\ [][NextPlugin]_vars

\* MXVOICE_CONFIG.port
PluginPort == 58847

\* the host listens on the port of the plugin's url
HostReachable ==
  /\ endpoint = "listening"
  /\ serverPort = Num(PluginPort)

\* the host listens on the port the plugin connects to: the attempt opens
Accepted(s) ==
  /\ HostReachable
  /\ SocketOpen(s)

\* nothing listens on the port: the attempt fails (error, then close 1006)
Refused(s) ==
  /\ ~HostReachable
  /\ sockets[s] = "CONNECTING"
  /\ SocketClose(s, AbnormalClose, TRUE)

\* an open connection ends: dropped, or closed by the host's shutdown
Dropped(s, code, failed) ==
  /\ sockets[s] = "OPEN"
  /\ SocketClose(s, code, failed)

\* the plugin left alone with a host that is started and given the plugin's
\* port at some time and then stays up: no button is pressed
NextRetry ==
  \/ InitializePlugin
  \/ StartServer
  \/ UpdateConfig(Num(PluginPort))
  \/ \E s \in Socks : Accepted(s)
  \/ \E s \in Socks : Refused(s)
  \/ \E s \in Socks, code \in CloseCodes, failed \in BOOLEAN : Dropped(s, code, failed)
  \/ ReconnectTimerFires
  \/ SlowReconnectTick
  \/ PingTick

\* a timer that is due fires, and the network settles every attempt: it
\* opens when the host listens and fails when nothing does
RetryFairness ==
  /\ WF_vars(ReconnectTimerFires)
  /\ WF_vars(SlowReconnectTick)
  /\ \A s \in Socks : WF_vars(Accepted(s)) /\ WF_vars(Refused(s))

SpecRetry == Init /\ [][NextRetry]_vars /\ RetryFairness

\* the hotkey tabs: programmatic switches, clicks, the framework's events,
\* the timers and the clock
NextTabs ==
  \/ \E k \in TabKeys : Watch(k)
  \/ \E tab \in Tabs : SwitchToHotkeyTab(tab)
  \/ \E i \in 1..MaxSwitches : ImportResolved(i)
  \/ \E i \in 1..MaxSwitches : NotifyTimeout(i)
  \/ FlagTimeout
  \/ \E tab \in Tabs : UserClick(tab)
  \/ ShownTab
  \/ Tick

SpecTabs == Init /\ [][NextTabs]_vars

\* the connected plugin: buttons are pressed and the host's messages arrive
NextDisplay ==
  \/ InitializePlugin
  \/ \E s \in Socks : SocketOpen(s)
  \/ \E action \in DisplayActions, within \in BOOLEAN : KeyDown(action, within)
  \/ \E s \in Socks, m \in HostMessages : Message(s, m)

SpecDisplay == Init /\ [][NextDisplay]_vars

\* a message the plugin has sent arrives at the host: the 'message' event
\* of the plugin's connection with the text the plugin wrote
DeliverCommand(c, mode) ==
  /\ commands # << >>
  /\ HandleMessage(c, JsonParse(JsonStringify(Head(commands))), mode)

\* the plugin connected to the host: its button presses and what the host
\* makes of the commands they send
NextCommands ==
  \/ StartServer
  \/ \E c \in Conns, mode \in StockIpcMain : HandleConnection(c, mode)
  \/ InitializePlugin
  \/ \E s \in Socks : SocketOpen(s)
  \/ \E action \in DisplayActions, within \in BOOLEAN : KeyDown(action, within)
  \/ \E c \in Conns, mode \in StockIpcMain : DeliverCommand(c, mode)

SpecCommands == Init /\ [][NextCommands]_vars

\* a message the host handed to ws.send in its last step arrives at the
\* plugin: the 'message' event of the plugin's socket with the text written
DeliverSent(s, c) ==
  \E i \in 1..Len(sent[c]) : Message(s, JsonParse(JsonStringify(sent[c][i])))

\* Ingestion end to end: the renderer's domain events in both shapes reach
\* updateState, and what the host sends for them reaches the plugin
NextIngest ==
  \/ StartServer
  \/ \E c \in Conns, mode \in StockIpcMain : HandleConnection(c, mode)
  \/ InitializePlugin
  \/ \E s \in Socks : SocketOpen(s)
  \/ \E u \in DomainUpdates : UpdateState(u)
  \/ \E s \in Socks, c \in Conns : DeliverSent(s, c)

SpecIngest == Init /\ [][NextIngest]_vars

\* the loop is switched on in the renderer (audio:loop)
LoopUpdates == {u \in EnvelopeUpdates : u.action = "loopStateUpdate"}

\* the renderer has no answer to get-loop-state and get-mute-state: the
\* awaited call is rejected or resolves to an object without success
UnansweredInvoke == {"reject", "nosuccess"}

\* Snapshots: connections are accepted while ipcMain.invoke returns a
\* promise, and the loop is switched on while sendStateUpdate waits for it
NextSnapshot ==
  \/ StartServer
  \/ \E c \in Conns, mode \in InvokeModes : HandleConnection(c, mode)
  \/ \E c \in Conns : PeerClose(c)
  \/ \E c \in Conns : HandleDisconnection(c)
  \/ \E i \in 1..MaxTasks, r \in UnansweredInvoke : ResumeLoopState(i, r)
  \/ \E i \in 1..MaxTasks, r \in UnansweredInvoke : ResumeMuteState(i, r)
  \/ \E u \in LoopUpdates : UpdateState(u)

SpecSnapshot == Init /\ [][NextSnapshot]_vars

(* ------------------------------ claims --------------------------------- *)
Registered(c) == c \in Range(activeConnections)

\* the last step handled an inbound message of a registered connection
\* (the registry holds the connection before and after the step)
HandledOnConnection ==
  /\ last.op = "handleMessage"
  /\ Registered(last.ws)

OthersGotNothing == \A d \in Conns : d # last.ws => sent[d] = << >>

\* C1: an inbound message on a connection whose action is a non-empty string
\* without handler is answered by exactly one response on that connection,
\* with success = false and the code UNKNOWN_ACTION, naming the action.
C1_UnknownActionAnswered ==
  ( /\ HandledOnConnection
    /\ last.msg.json = "object"
    /\ last.msg.action # ""
    /\ last.msg.action \notin RegisteredActions )
  => /\ Len(sent[last.ws]) = 1
     /\ sent[last.ws][1].success = "false"
     /\ sent[last.ws][1].code = "UNKNOWN_ACTION"
     /\ sent[last.ws][1].about = last.msg.action
     /\ sent[last.ws][1].action = last.msg.action \o "Response"

C1_Witness ==
  /\ HandledOnConnection
  /\ last.msg.action = "volumeUp"
  /\ Len(activeConnections) = NumConns
  /\ Len(sent[last.ws]) = 1
  /\ sent[last.ws][1].code = "UNKNOWN_ACTION"

\* the volume of a setVolume command is missing, or a number outside [0, 1]
VolumeOutOfRange(m) ==
  /\ m.json = "object"
  /\ m.action = "setVolume"
  /\ \/ m.payload.volume = Absent
     \/ /\ m.payload.volume.t = "number"
        /\ (m.payload.volume.v < 0 \/ m.payload.volume.v > VolumeOne)

\* what one step of the host does to a message or connection of C2's case
C2_Step ==
  (HandledOnConnection' /\ VolumeOutOfRange(last'.msg))
  => /\ Len(sent'[last'.ws]) = 1
     /\ sent'[last'.ws][1].action = "setVolumeResponse"
     /\ sent'[last'.ws][1].success = "false"
     /\ sent'[last'.ws][1].code = "INVALID_VOLUME"
     /\ streamDeckState'.volume = streamDeckState.volume
     /\ ipc' = << >>

PositionOutOfRange(m) ==
  /\ m.json = "object"
  /\ m.action = "seekToPosition"
  /\ \/ m.payload.position = Absent
     \/ (m.payload.position.t = "number" /\ m.payload.position.v < 0)

\* what one step of the host does to a message or connection of C3's case
C3_Step ==
  (HandledOnConnection' /\ PositionOutOfRange(last'.msg))
  => /\ Len(sent'[last'.ws]) = 1
     /\ sent'[last'.ws][1].action = "seekToPositionResponse"
     /\ sent'[last'.ws][1].success = "false"
     /\ sent'[last'.ws][1].code = "INVALID_POSITION"
     /\ streamDeckState'.position = streamDeckState.position
     /\ ipc' = << >>

C4_HandlerErrorReported ==
  ( /\ HandledOnConnection
    /\ last.msg.action \in RegisteredActions
    /\ last.threw )
  => /\ Len(sent[last.ws]) = 1
     /\ sent[last.ws][1].success = "false"
     /\ sent[last.ws][1].code = "EXECUTION_ERROR"

\* the message does not parse, or parses to null
Unparsable(m) == m.json \in {"malformed", "null"}

\* the message parses to a value without action that is not the ping
NoActionNoPing(m) == m.json = "object" /\ m.action = "" /\ m.type # "ping"

C5_Step ==
  ( /\ HandledOnConnection'
    /\ (Unparsable(last'.msg) \/ NoActionNoPing(last'.msg)) )
  => /\ sent'[last'.ws] =
          << ErrorMessage(IF Unparsable(last'.msg)
                            THEN "PARSE_ERROR" ELSE "UNSUPPORTED_FORMAT") >>
     /\ OthersGotNothing'
     /\ activeConnections' = activeConnections
     /\ readyState' = readyState
     /\ readyState'[last'.ws] = "OPEN"

PerMessageError ==
  /\ last.op = "handleMessage"
  /\ \/ Unparsable(last.msg)
     \/ NoActionNoPing(last.msg)
     \/ (last.msg.action # "" /\ last.msg.action \notin RegisteredActions)
     \/ VolumeOutOfRange(last.msg)
     \/ PositionOutOfRange(last.msg)
     \/ (last.msg.action = "getHotkeyTabContent"
           /\ TabNumberRejected(Get(last.msg.payload.tabNumber)))
     \/ last.threw

\* what one step of the host does to a message or connection of C6's case
C6_Step ==
  PerMessageError'
  => /\ OthersGotNothing'
     /\ Len(sent'[last'.ws]) <= 1
     /\ \A i \in 1..Len(sent'[last'.ws]) : sent'[last'.ws][i].code # ""
     /\ activeConnections' = activeConnections

\* C6: a per-message error on connection c sends its error message to c
\* only: no other connection receives anything, and the registry is unchanged.
C6_ErrorsStayOnConnection == [][C6_Step]_vars

C6_Witness ==
  /\ PerMessageError
  /\ Len(activeConnections) = NumConns
  /\ \A c \in Conns : readyState[c] = "OPEN"
  /\ Len(sent[last.ws]) = 1
  /\ sent[last.ws][1].code = "INVALID_VOLUME"

Open(c) == readyState[c] = "OPEN"

\* C7: broadcastMessage over a registry with open and non-open sockets hands
\* the envelope exactly once to every open socket whose send does not raise
\* and to no other socket, wherever the non-open and the failing sockets
\* stand in the registry.
C7_BroadcastReachesEveryOpenSocket ==
  last.op = "broadcastMessage"
  => \A c \in Conns :
       sent[c] = IF Registered(c) /\ Open(c) /\ c \notin last.fails
                   THEN << last.msg >> ELSE << >>

\* a socket that is not open, or whose send raises, stands before an open one
C7_Witness ==
  /\ last.op = "broadcastMessage"
  /\ Len(activeConnections) = NumConns
  /\ \E i, j \in 1..Len(activeConnections) :
       /\ i < j
       /\ (~Open(activeConnections[i]) \/ activeConnections[i] \in last.fails)
       /\ Open(activeConnections[j])
       /\ activeConnections[j] \notin last.fails
       /\ sent[activeConnections[j]] = << last.msg >>

\* C8: every domain event fed to the host (an object handed to updateState,
\* a hotkey change raised on ipcMain) is broadcast exactly once: when the
\* event has been processed every registered open socket has received one
\* envelope for it.
C8_EveryEventBroadcastOnce ==
  last.op \in {"updateState", "hotkeyUpdate"}
  => \A c \in Conns : (Registered(c) /\ Open(c)) => Len(sent[c]) = 1

\* the part of C8 the code keeps: every object handed to updateState is
\* broadcast exactly once
C8_UpdateStateBroadcastOnce ==
  last.op = "updateState"
  => \A c \in Conns :
       Len(sent[c]) = IF Registered(c) /\ Open(c) THEN 1 ELSE 0

\* the connectionStateUpdate built from the state object st
IsFullState(m, st) ==
  /\ m.action = "connectionStateUpdate"
  /\ m.payload.connected = Bool(TRUE)
  /\ m.payload.connectionCount = st.connectionCount
  /\ m.payload.lastActivity = st.lastActivity
  /\ m.payload.currentSong = st.currentSong
  /\ m.payload.isPlaying = st.isPlaying
  /\ m.payload.volume = st.volume
  /\ m.payload.position = st.position
  /\ m.payload.duration = st.duration
  /\ m.payload.loopEnabled \in {Bool(TRUE), Bool(FALSE)}
  /\ m.payload.muteEnabled \in {Bool(TRUE), Bool(FALSE)}

SuspendedFor(tk, c) ==
  \E i \in 1..Len(tk) : tk[i].kind = "sendStateUpdate" /\ tk[i].ws = c

\* what one step of the host does to a message or connection of C9's case
C9_Step ==
  /\ last'.op = "handleConnection"
     => /\ last'.ws \in Range(activeConnections')
        /\ last'.ws \notin Range(activeConnections)
        /\ streamDeckState'.connected = Bool(TRUE)
        /\ OthersGotNothing'
        /\ IF SuspendedFor(tasks', last'.ws)
             THEN sent'[last'.ws] = << >>
             ELSE /\ Len(sent'[last'.ws]) = 1
                  /\ IsFullState(sent'[last'.ws][1], streamDeckState')
  /\ (last'.op \in {"resumeLoopState", "resumeMuteState"} /\ Len(tasks') < Len(tasks))
     => /\ OthersGotNothing'
        /\ IF Open(last'.ws)
             THEN /\ Len(sent'[last'.ws]) = 1
                  /\ IsFullState(sent'[last'.ws][1], streamDeckState')
             ELSE sent'[last'.ws] = << >>

\* C9: accepting a connection adds it to the registry, leaves connected =
\* true, and sends one full connectionStateUpdate to the new connection and
\* nothing to any other: in the accepting step when sendStateUpdate awaits
\* nothing, else in the step that resumes it for the last time, provided the
\* socket is still open then.
C9_AcceptSendsStateToNewConnection == [][C9_Step]_vars

\* a second connection is accepted while the first is open, and receives the state
C9_Witness ==
  /\ last.op = "handleConnection"
  /\ Len(activeConnections) = NumConns
  /\ \A c \in Conns : Open(c)
  /\ Len(sent[last.ws]) = 1
  /\ sent[last.ws][1].action = "connectionStateUpdate"
  /\ sent[last.ws][1].payload.connectionCount = Num(NumConns)

\* C10: connectionCount is the size of the registry and connected is true
\* exactly when the registry is not empty.
C10_RegistryMirroredInState ==
  /\ streamDeckState.connectionCount = Num(Len(activeConnections))
  /\ streamDeckState.connected = Bool(Len(activeConnections) > 0)

\* one of several connections has been closed: the others keep connected = true
C10_Witness ==
  /\ last.op \in {"handleDisconnection", "handleConnectionError"}
  /\ Len(activeConnections) = NumConns - 1
  /\ Len(activeConnections) > 0
  /\ streamDeckState.connected = Bool(TRUE)

\* the defaults documented for the state of the control surface
DocumentedDefaults ==
  /\ streamDeckState.connected = Bool(FALSE)
  /\ streamDeckState.connectionCount = Num(0)
  /\ streamDeckState.currentSong = Null
  /\ streamDeckState.isPlaying = Bool(FALSE)
  /\ streamDeckState.volume = Num(VolumeOne)
  /\ streamDeckState.position = Num(0)
  /\ streamDeckState.duration = Num(0)
  /\ streamDeckState.loopEnabled = Bool(FALSE)
  /\ streamDeckState.muteEnabled = Bool(FALSE)
  /\ streamDeckState.lastActivity = Null

\* what one stopServer step does to the sockets, the registry and the state
C11_Step ==
  last'.op = "stopServer"
  => /\ \A c \in Range(activeConnections) :
          readyState[c] = "OPEN"
          => (c \in last'.closed /\ readyState'[c] = "CLOSING")
     /\ last'.closed \subseteq Range(activeConnections)
     /\ activeConnections' = << >>
     /\ DocumentedDefaults'

\* C11: stopServer on a running server calls close with the code 1000 on
\* every registered connection that is open, empties the registry and leaves
\* the state at its documented defaults.
C11_StopClosesAndResets == [][C11_Step]_vars

\* every socket was registered and open, and the state had been changed
C11_Witness ==
  /\ last.op = "stopServer"
  /\ last.closed = Conns
  /\ \A c \in Conns : readyState[c] = "CLOSING"
  /\ DocumentedDefaults

\* C12: when startServer brings the server up after a stopServer, the state
\* equals its defaults, whatever was ingested or received since the stop.
C12_StateResetAtRestart ==
  [][(wsServer = "null" /\ wsServer' = "server") => streamDeckState' = DefaultState]_vars

(* ------------------------- claims on the client ------------------------ *)
Pending(t) == t.state = "pending"

\* the delays of the fast attempts 1..10 in eighths of a millisecond:
\* 3000, 4500, 6750, 10125, 15187.5, 22781.25 and then 30000 ms
C13_Delays ==
  << Ms(3000), Ms(4500), Ms(6750), Ms(10125), 121500, 182250,
     Ms(30000), Ms(30000), Ms(30000), Ms(30000) >>

\* C13: the delay scheduled for the n-th consecutive failed fast attempt,
\* n = 1..10, counted from a fresh or reset backoff state, is
\* min(3000 * 1.5^(n-1), 30000) ms.
C13_BackoffDelays ==
  Pending(reconnectTimer)
  => /\ reconnectAttempts \in 1..MaxReconnectAttempts
     /\ reconnectTimer.delay = C13_Delays[reconnectAttempts]

\* the 10th fast attempt is scheduled, and the 6th was scheduled after 22781.25 ms
C13_Witness ==
  /\ Pending(reconnectTimer)
  /\ reconnectAttempts = MaxReconnectAttempts
  /\ reconnectTimer.delay = Ms(30000)
  /\ C13_Delays[6] * 4 = 91125 * MsScale

\* an attempt made by the callback of the slow interval
SlowAttempt == event.op = "slowReconnectTimer" /\ event.connects = 1

C14_Step ==
  ( /\ Pending(slowReconnectTimer)
    /\ event'.op \notin UserEvents \cup {"open"} )
  => /\ reconnectAttempts = MaxReconnectAttempts
     /\ reconnectAttempts' = reconnectAttempts
     /\ currentReconnectDelay' = currentReconnectDelay
     /\ ~Pending(reconnectTimer')
     /\ Pending(slowReconnectTimer')
     /\ slowReconnectTimer'.delay = SlowReconnectDelay
     /\ SlowAttempt' => event'.spacing \in {SlowReconnectDelay, SlowReconnectDelay + Latency}
     /\ (SlowAttempt' /\ event'.spacing = SlowReconnectDelay)
          => \E s \in Socks : sockets[s] = "CONNECTING"

C15_Step ==
  event'.op = "open"
  => /\ isConnected'
     /\ reconnectTimer' = NullTimer
     /\ slowReconnectTimer' = NullTimer
     /\ reconnectAttempts' = 0
     /\ currentReconnectDelay' = ReconnectDelay
     /\ Pending(pingTimer')
     /\ pingTimer'.delay = PingInterval

\* C15: every successful connect leaves the client connected, with neither
\* the fast timeout nor the slow interval pending, attempt count 0, the
\* delay at 3000 ms and a ping interval of 30000 ms running.
C15_ConnectResets == [][C15_Step]_vars

\* a socket opens while another one is still connecting
C15_Witness ==
  /\ event.op = "open"
  /\ isConnected
  /\ Pending(pingTimer)
  /\ \E s \in Socks : s # event.sock /\ sockets[s] = "CONNECTING"

\* C16: from the observation of a close with the code 1000 until the next
\* button press or force reconnect, no retry is scheduled and no connection
\* attempt is made.
C16_CleanCloseStaysQuiet ==
  event.quiet
  => /\ ~Pending(reconnectTimer)
     /\ ~Pending(slowReconnectTimer)
     /\ event.connects = 0

\* what the close event with a code other than 1000 leaves
C17_Step ==
  (event'.op = "close" /\ event'.code # CleanClose)
  => /\ Pending(reconnectTimer') \/ Pending(slowReconnectTimer')
     /\ ~(Pending(reconnectTimer') /\ Pending(slowReconnectTimer'))
     /\ (isConnected \/ reconnectAttempts = 0)
          => /\ reconnectAttempts' = 1
             /\ Pending(reconnectTimer')
             /\ reconnectTimer'.delay = ReconnectDelay

\* C17: a close with a code other than 1000 always schedules a
\* reconnection; when it happens in the connected state the attempt count
\* becomes 1 and exactly one retry is scheduled, after 3000 ms.
C17_DropSchedulesRetry == [][C17_Step]_vars

\* the open connection has dropped
C17_Witness ==
  /\ event.op = "close"
  /\ event.was = "OPEN"
  /\ event.code = AbnormalClose
  /\ reconnectAttempts = 1
  /\ reconnectTimer = Timer(ReconnectDelay, Latency)
  /\ \A s \in Socks : sockets[s] = "NONE"

\* what forceReconnect leaves
C18_Step ==
  event'.op = "forceReconnect"
  => /\ \A s \in Socks : sockets[s] = "OPEN"
                          => (s \in event'.closes /\ sockets'[s] = "CLOSING")
     /\ reconnectTimer' = NullTimer
     /\ slowReconnectTimer' = NullTimer
     /\ pingTimer' = NullTimer
     /\ reconnectAttempts' = 0
     /\ currentReconnectDelay' = ReconnectDelay
     /\ event'.connects = 1
     /\ sockets'[websocket'] = "CONNECTING"

\* C18: forceReconnect, in any state of the client, closes every open
\* connection with the code 1000, leaves no retry timer and no ping timer,
\* resets the attempt count to 0 and the delay to 3000 ms, and starts a
\* connection attempt in the same step.
C18_ForceReconnectResets == [][C18_Step]_vars

\* what a button press leaves when the client is not connected
C19_Step ==
  (event'.op = "onKeyDown" /\ ~Ensured(Plugin))
  => /\ event'.connects >= 1
     /\ websocket' # NoSocket
     /\ sockets[websocket'] = "NONE"
     /\ sockets'[websocket'] = "CONNECTING"
     /\ ~Pending(reconnectTimer')
     /\ ~Pending(slowReconnectTimer')

\* C19: a button press while the client is not connected starts a
\* connection attempt in the same step, whether a fast retry, the slow
\* interval or no timer is pending; no retry timer is left to wait for.
C19_PressConnectsNow == [][C19_Step]_vars

\* a press in slow retry: the attempt count is still 10, the interval is gone
C19_Witness ==
  /\ event.op = "onKeyDown"
  /\ event.connects = 1
  /\ reconnectAttempts = MaxReconnectAttempts
  /\ reconnectTimer = NullTimer
  /\ slowReconnectTimer = NullTimer

(* ----------------------- claims on the hotkey tabs --------------------- *)
\* C20: a tab-switched notification is emitted only if no notification with
\* the same (fromTab, toTab) key was emitted less than 500 ms earlier, and
\* a notification is dropped only if one was, on the programmatic path
\* and on the path of the framework's event alike.
C20_DedupWindow ==
  <<tabEvent.fromTab, tabEvent.toTab>> = watched
  => /\ tabEvent.emitted => tabEvent.since >= DedupWindow
     /\ tabEvent.suppressed => tabEvent.since < DedupWindow

\* the listener handles the framework event of a programmatic switch that
\* notifies on its own
C21_Step ==
  (tabEvent'.op = "shown" /\ Head(shownEvents).cause = "notifies")
  => ~tabEvent'.emitted

\* C21: a tab switch made by switchToHotkeyTab, which notifies 100 ms after
\* showTab, is never notified a second time by the listener of the
\* framework event that showTab caused, whenever that event is delivered:
\* the switch produces exactly one tab-switched notification.
C21_OneNotification == [][C21_Step]_vars

AudioFields(st) ==
  << st.currentSong, st.isPlaying, st.volume, st.position, st.duration,
     st.loopEnabled, st.muteEnabled >>

\* C23: the audio fields of the state (currentSong, isPlaying, volume,
\* position, duration, loopEnabled, muteEnabled) change only in a step of
\* updateState or of stopServer; a client command and the acceptance of a
\* connection leave them as they are.
C23_OnlyIngestionChangesAudio ==
  [][AudioFields(streamDeckState') # AudioFields(streamDeckState)
     => last'.op \in {"updateState", "stopServer"}]_vars

(* ------------------- claims on the client's display ------------------- *)
\* C24: after the client has handled an audioStateUpdate its play/pause
\* button shows the state the broadcast names and its current song is the
\* broadcast's, null included; after a loopStateUpdate or muteStateUpdate
\* its loop or mute flag is the broadcast's; whatever it had guessed before.
C24_BroadcastOverwritesGuess ==
  event.op = "message"
  => LET p == event.msg.payload IN
     /\ event.msg.action = "audioStateUpdate"
        => /\ Shown(audioState) = p.audioState
           /\ audioState.currentSong = p.currentSong
     /\ event.msg.action = "loopStateUpdate" => audioState.loopEnabled = p.loopEnabled
     /\ event.msg.action = "muteStateUpdate" => audioState.muteEnabled = p.muteEnabled

(* ------------------- claims on the client's commands ------------------ *)
\* C25: when the host has handled a message the client sent for a button
\* press (playTrack, pauseTrack, stopTrack, toggleLoop, toggleMute), the
\* handler registered under the command's name has run: its response, named
\* after the command, has gone back to the connection.
C25_CommandsDispatched ==
  (last.op = "handleMessage" /\ last.msg.command # "")
  => /\ last.msg.command \in RegisteredActions
     /\ \E i \in 1..Len(sent[last.ws]) :
          sent[last.ws][i].action = last.msg.command \o "Response"

(* ------------------ claims on responses and lifecycle ------------------ *)
\* the messages of a send list that are the response envelope of an action
ResponsesTo(out, action) ==
  {i \in 1..Len(out) : /\ out[i].action = action \o "Response"
                        /\ out[i].success \in {"true", "false"}}

\* a registered action has been dispatched on an open connection and its
\* handler has run to its end in the step
C26_Step ==
  (/\ last'.op = "handleMessage"
   /\ last'.msg.json = "object"
   /\ last'.msg.action \in RegisteredActions
   /\ readyState[last'.ws] = "OPEN"
   /\ tasks' = tasks)
  => /\ Cardinality(ResponsesTo(sent'[last'.ws], last'.msg.action)) = 1
     /\ Len(sent'[last'.ws]) = 1

\* C26: every dispatched action with a registered handler, getState
\* included, puts exactly one message on the originating connection, and
\* that message is named after the action with the suffix Response and
\* carries a boolean success.
C26_OneResponsePerAction == [][C26_Step]_vars

\* C27: when the port is in use, startServer returns false to its caller and
\* getServerStatus().running is false afterwards
C27_BindFailureReported ==
  (last.op = "startServer" /\ endpoint = "failing")
    => /\ last.result = Bool(FALSE)
       /\ ~GetServerStatus.running

\* the port the last effective updateConfig was given: the value it stored
ConfiguredPort == StoreGet(store, "streamDeck.port", Num(DefaultPort))

\* C28: initializeStreamDeck uses the port the last updateConfig was given,
\* and the default port only when no port was ever configured
C28_PortPersisted ==
  last.op = "initializeStreamDeck" => serverPort = ConfiguredPort

\* a handleMessage step for a message whose type is 'ping'
PingHandled ==
  /\ last'.op = "handleMessage"
  /\ last'.msg.json = "object"
  /\ last'.msg.type = "ping"

\* one pong with a timestamp to the connection the ping came from, nothing to
\* any other, no command to the renderer, and only lastActivity changed
PongOnly ==
  /\ sent'[last'.ws] = << [NoMessage EXCEPT !.type = "pong", !.timestamp = Now] >>
  /\ \A c \in Conns \ {last'.ws} : sent'[c] = << >>
  /\ ipc' = << >>
  /\ tasks' = tasks
  /\ streamDeckState' = [streamDeckState EXCEPT !.lastActivity = Now]

C29_Step ==
  (PingHandled /\ last'.msg.action = "" /\ readyState[last'.ws] = "OPEN") => PongOnly

\* C29: a ping that names no action, received on an open connection, is
\* answered with exactly one pong carrying a timestamp, to that connection
\* only, and changes nothing of the state but lastActivity
C29_PingPong == [][C29_Step]_vars

C29_Witness ==
  /\ last.op = "handleMessage"
  /\ last.msg.type = "ping"
  /\ last.msg.action = ""
  /\ Len(activeConnections) > 1
  /\ readyState[last.ws] = "OPEN"
  /\ sent[last.ws] = << Pong >>

C29_OriginalStep == PingHandled => PongOnly

\* C29 as stated: every message of type ping is answered with a pong before
\* any action dispatch
C29_EveryPingPong == [][C29_OriginalStep]_vars

(* ------------------------- claims on ingestion ------------------------ *)
\* the fields an update is about, by its kind (the legacy shape has none)
Described(m) ==
  CASE m.action = "audioStateUpdate" -> {"isPlaying"}
    [] m.action = "positionUpdate" -> {"position", "duration"}
    [] m.action = "loopStateUpdate" -> {"loopEnabled"}
    [] m.action = "muteStateUpdate" -> {"muteEnabled"}
    [] m.action = "volumeStateUpdate" -> {"volume"}
    [] OTHER -> {"isPlaying", "volume", "position", "duration"}

\* the object shows what the message says of the fields it is about
Shows(obj, m) ==
  \A f \in Described(m) : m.payload[f].t # "absent" => obj[f] = m.payload[f]

\* the message is one the host sends for an update
ForUpdate(m) ==
  m.type = "state_update" \/ (m.action # "" /\ m.action # "connectionStateUpdate")

\* C30: after updateState with either shape the state shows the update and
\* every open connection has been sent exactly one message, and when such a
\* message has arrived at the client, the client's picture shows the update
C30_BothShapesServed ==
  /\ last.op = "updateState"
     => /\ Shows(streamDeckState, last.msg)
        /\ \A c \in Conns : Registered(c) /\ readyState[c] = "OPEN" => Len(sent[c]) = 1
  /\ (event.op = "message" /\ ForUpdate(event.msg)) => Shows(audioState, event.msg)

(* --------------------- claims on the state the host keeps ------------- *)
\* the fields of the state that domain events speak for
AuthoritativeFields ==
  {"isPlaying", "currentSong", "volume", "position", "loopEnabled", "muteEnabled"}

\* an updateState step stores every authoritative field the event carries
\* and keeps the others (the position may also be taken from the event's
\* song), and a handleConnection step reports the stored values to the new
\* connection
C31_Step ==
  /\ last'.op = "updateState"
     => \A f \in AuthoritativeFields :
          \/ streamDeckState'[f] =
               IF last'.msg.payload[f].t # "absent" THEN last'.msg.payload[f]
               ELSE streamDeckState[f]
          \/ /\ f = "position"
             /\ last'.msg.payload[f].t = "absent"
             /\ streamDeckState'[f] = JsOr(SongPosition(Get(last'.msg.payload.currentSong)), Num(0))
  /\ (last'.op = "handleConnection" /\ sent'[last'.ws] # << >>)
     => \A f \in AuthoritativeFields :
          sent'[last'.ws][1].payload[f] = streamDeckState[f]

\* C31: the state holds the value of the most recent event for each
\* authoritative field, whatever the shape of the events, and the
\* connectionStateUpdate of a later connection reports it
C31_StateFollowsEvents == [][C31_Step]_vars

IsBoolean(x) == x.t = "boolean"
IsNumberFrom(x, low) == x.t = "number" /\ x.v >= low

\* C32: in every state isPlaying, loopEnabled and muteEnabled are booleans,
\* volume is a number between 0 and 1, position and duration are numbers
\* not below 0, and currentSong is a song or null
C32_WellTyped ==
  /\ IsBoolean(streamDeckState.isPlaying)
  /\ IsBoolean(streamDeckState.loopEnabled)
  /\ IsBoolean(streamDeckState.muteEnabled)
  /\ IsNumberFrom(streamDeckState.volume, 0) /\ streamDeckState.volume.v <= VolumeOne
  /\ IsNumberFrom(streamDeckState.position, 0)
  /\ IsNumberFrom(streamDeckState.duration, 0)
  /\ streamDeckState.currentSong.t \in {"object", "null"}

(* ------------------------- claims on ordering ------------------------- *)
\* what updateState sends for the object u once the state is st
Forwarded(u, st) == IF IsActionFormat(u) THEN u ELSE StateUpdateMessage(st)

\* a message of the kind updateState sends
IsUpdateMessage(m) ==
  m.type = "state_update"
  \/ m.action \in {"audioStateUpdate", "positionUpdate", "loopStateUpdate",
                   "muteStateUpdate", "volumeStateUpdate"}

C33_Step ==
  /\ last'.op = "updateState"
     => /\ \A c \in Conns :
             sent'[c] = IF Registered(c) /\ readyState[c] = "OPEN"
                          THEN << Forwarded(last'.msg, streamDeckState') >> ELSE << >>
        /\ tasks' = tasks
  /\ last'.op \notin {"updateState", "broadcastMessage"}
     => \A c \in Conns : \A i \in 1..Len(sent'[c]) : ~IsUpdateMessage(sent'[c][i])

\* C33: the step that ingests a transition hands its message to every
\* registered open connection and leaves nothing of it to be sent later,
\* and no other step sends the message of a transition: the broadcasts of
\* two transitions cannot interleave and reach every connection in the
\* order of ingestion
C33_BroadcastsDoNotInterleave == [][C33_Step]_vars

\* a second transition has been broadcast to two open connections
C33_Witness ==
  /\ last.op = "updateState"
  /\ last.msg.action = "audioStateUpdate"
  /\ streamDeckState.loopEnabled = Bool(TRUE)
  /\ \E c, d \in Conns :
       /\ c # d
       /\ Registered(c) /\ Registered(d)
       /\ sent[c] = << last.msg >> /\ sent[d] = << last.msg >>

\* what holds of the store at every moment when the only domain event is
\* the loop being switched on: once the play state is reported, the loop is on
LoopOnOnceReported(x) == x.audioState = STOPPED => x.loopEnabled = Bool(TRUE)

\* C34: every connectionStateUpdate holds values the store held together at
\* one moment; here, as the store at every moment has the loop on once the
\* play state is reported, so has every snapshot sent
C34_SnapshotsConsistent ==
  /\ LoopOnOnceReported(streamDeckState)
  /\ \A c \in Conns : \A i \in 1..Len(sent[c]) :
       sent[c][i].action = "connectionStateUpdate"
         => LoopOnOnceReported(sent[c][i].payload)

\* a request of connection c whose handler is suspended: its response is
\* still to come
AwaitsResponse(tk, c) ==
  \E i \in 1..Len(tk) :
    tk[i].ws = c /\ tk[i].kind \in {"getHotkeyTabs", "getHotkeyTabContent"}

C35_Step ==
  (last'.op = "handleMessage" /\ sent'[last'.ws] # << >>)
    => ~AwaitsResponse(tasks, last'.ws)

\* C35: the responses on a connection come in the order of its requests: a
\* request is not answered while an earlier request of the same connection
\* still waits for its response
C35_ResponsesInArrivalOrder == [][C35_Step]_vars

(* ------------------- claims on the duplicate check -------------------- *)
\* the record holds a notification of another key than <<from, to>>
OtherKeyRecorded(from, to) ==
  /\ lastNotification.t = "object"
  /\ <<lastNotification.fromTab, lastNotification.toTab>> # <<from, to>>

\* a notification that reaches the duplicate check while the record holds another key
\* passes it: the listener emits, switchToHotkeyTab goes on to the import
C36_Step ==
  /\ (/\ tabEvent'.op = "shown"
      /\ shownEvents # << >>
      /\ ~programmaticSwitch
      /\ OtherKeyRecorded(Head(shownEvents).fromTab, Head(shownEvents).toTab))
     => tabEvent'.emitted
  /\ (/\ tabEvent'.op = "switchToHotkeyTab"
      /\ OtherKeyRecorded(activeTab, tabEvent'.toTab))
     => /\ ~tabEvent'.suppressed
        /\ Len(switches') = Len(switches) + 1

\* C36: the duplicate check compares only against the single most recently
\* emitted notification: once A->B has been emitted and then another key
\* C->D, a new A->B that reaches the duplicate check passes it and is emitted, even
\* if less than 500 ms have passed since the first A->B.
C36_OnlyLastCompared == [][C36_Step]_vars

\* the listener has emitted the watched key less than 500 ms after the last
\* emission of the same key
C36_Witness ==
  /\ tabEvent.op = "shown"
  /\ tabEvent.emitted
  /\ <<tabEvent.fromTab, tabEvent.toTab>> = watched
  /\ tabEvent.since < DedupWindow

\* the record holds a notification of the key <<from, to>>
SameKeyRecorded(from, to) ==
  /\ lastNotification.t = "object"
  /\ <<lastNotification.fromTab, lastNotification.toTab>> = <<from, to>>

\* a dropped notification leaves the record as it is, and a notification of
\* the recorded key that reaches the duplicate check is dropped or let through by the
\* age of the record alone
C37_Step ==
  /\ tabEvent'.suppressed => lastNotification' = lastNotification
  /\ (/\ tabEvent'.op = "shown"
      /\ shownEvents # << >>
      /\ ~programmaticSwitch
      /\ SameKeyRecorded(Head(shownEvents).fromTab, Head(shownEvents).toTab))
     => /\ tabEvent'.suppressed <=> lastNotification.age < DedupWindow
        /\ tabEvent'.emitted <=> lastNotification.age >= DedupWindow
  /\ (/\ tabEvent'.op = "switchToHotkeyTab"
      /\ SameKeyRecorded(activeTab, tabEvent'.toTab))
     => (tabEvent'.suppressed <=> lastNotification.age < DedupWindow)

\* C37: a suppressed duplicate does not refresh the recorded marker: the
\* 500 ms window is measured from the last emitted notification, so of
\* identical-key notifications arriving every 400 ms the first is emitted,
\* the second (400 ms after it) is suppressed and the third (800 ms after
\* the first) is emitted again.
C37_SuppressedKeepsMarker == [][C37_Step]_vars

\* the listener has dropped a duplicate that came 400 ms after the emission
\* of its key, and the record still counts from that emission
C37_Witness ==
  /\ tabEvent.op = "shown"
  /\ tabEvent.suppressed
  /\ ~programmaticSwitch
  /\ SameKeyRecorded(tabEvent.fromTab, tabEvent.toTab)
  /\ lastNotification.age = DedupWindow - ClockStep

(* ------------------- claims on the client's sockets ------------------- *)
\* the sockets that are connecting or open
LiveSockets == {s \in Socks : sockets[s] \in {"CONNECTING", "OPEN"}}

\* C38: the client owns at most one live socket (connecting or open) at any
\* time: no sequence of retry-timer firings, slow-retry ticks, button
\* presses and force reconnects starts a new connection attempt while a
\* previous socket is still connecting or open without closing it first.
C38_OneLiveSocket == Cardinality(LiveSockets) <= 1

\* the close event of a socket that is not the one websocket refers to
SupersededClose ==
  /\ event'.op = "close"
  /\ websocket # NoSocket
  /\ event'.sock # websocket

C39_Step ==
  SupersededClose
  => /\ websocket' = websocket
     /\ sockets[websocket] = "OPEN" => isConnected' = isConnected
     /\ pingTimer' = pingTimer
     /\ reconnectTimer' = reconnectTimer
     /\ slowReconnectTimer' = slowReconnectTimer

\* C39: a close event that arrives from a superseded socket (one replaced
\* by forceReconnect or by a newer connection attempt) does not disturb the
\* current connection: it does not clear the client's reference to the
\* current socket, does not set isConnected to false while the current
\* socket is open, does not stop the current ping timer, and does not
\* schedule a reconnect.
C39_StaleCloseIgnored == [][C39_Step]_vars

(* --------------------- claims on the retry engine --------------------- *)
RetryPending ==
  reconnectTimer.state = "pending" \/ slowReconnectTimer.state = "pending"

Attempting == \E s \in Socks : sockets[s] = "CONNECTING"

\* connected, or on the way to a connection
Engaged == isConnected \/ RetryPending \/ Attempting

\* disconnected with the retry engine at work
Retrying == ~isConnected /\ (RetryPending \/ Attempting)

\* the engine comes to rest only by the close event of a clean close
C40_Step ==
  (Engaged /\ ~Engaged') => (event'.op = "close" /\ event'.code = CleanClose)

\* the last step called connectToMxVoice()
AttemptStarted == event.connects > 0

\* C40: the client never gets stuck after a non-clean loss: as long as it
\* is disconnected because of a failure or of a close with a code other
\* than 1000, a retry timer is pending or a connection attempt is in
\* progress; so attempts recur forever while the host is unreachable and,
\* once the host is reachable and stays so, the client eventually reaches
\* Connected.
C40_NeverStuck ==
  /\ [][C40_Step]_vars
  /\ []<>(event.op = "load" \/ HostReachable \/ AttemptStarted)
  /\ (Retrying /\ HostReachable) ~> isConnected

\* the ten fast attempts have failed, the host has come up since, and the
\* slow timer has just started an attempt
C40_Witness ==
  /\ reconnectAttempts = MaxReconnectAttempts
  /\ slowReconnectTimer.state = "pending"
  /\ event.op = "slowReconnectTimer"
  /\ AttemptStarted
  /\ ~isConnected
  /\ HostReachable

====
